---------------------------- MODULE Spec2Model ----------------------------
(***************************************************************************)
(* Model of the Qwen3-ASR weight converters:                               *)
(*   scripts/convert-asr-gguf.py    (tagged container, Q8_0 / Q4_K codecs)  *)
(*   scripts/convert-asr-qmodel.py  (flat container, Q8_0 with f32 scale)   *)
(*                                                                         *)
(* Numbers.  A float is modelled by an integer count of the smallest       *)
(* subnormal of the format that stores the block scale: 2^-24 for the      *)
(* tagged codecs (scale stored as IEEE half) and 2^-149 for the flat codec  *)
(* (scale stored as IEEE single).  Input elements are integer multiples of  *)
(* that unit, so every input is an exactly representable float32.  A       *)
(* rounding the code performs (np.float16(..), the f32 scale, np.round) is  *)
(* computed on exact quotients with round-half-to-even, which is what the   *)
(* IEEE operation returns for the magnitudes drawn here (|x| < 2^20 units). *)
(* The one place where float32 arithmetic differs from the exact quotient   *)
(* inside this range, block * (1/d) at an exact tie, is modelled bit for    *)
(* bit by MulRecipRound.                                                    *)
(***************************************************************************)
EXTENDS Integers, Sequences, FiniteSets, TLC

\* ------------------------------------------------------------------------
\* Program constants
\* ------------------------------------------------------------------------
GGUF_ALIGNMENT == 32
QK8_0 == 32
QK_K == 256
BLOCK_Q8_0_SIZE == 36
HEADER_SIZE == 128

\* bytes of one tagged Q8_0 record: struct.pack('<e') + 32 int8
GGUF_Q8_0_RECORD == 2 + QK8_0
\* bytes of one Q4_K record: d, dmin, 12 packed bytes, 128 code bytes
Q4_K_RECORD == 2 + 2 + 12 + (QK_K \div 2)

\* ------------------------------------------------------------------------
\* Integer helpers
\* ------------------------------------------------------------------------
Abs(x) == IF x < 0 THEN -x ELSE x

Sign(x) == IF x < 0 THEN -1 ELSE 1

MinInt(a, b) == IF a < b THEN a ELSE b

MaxInt(a, b) == IF a > b THEN a ELSE b

SetMax(S) == CHOOSE m \in S : \A y \in S : y <= m

SetMin(S) == CHOOSE m \in S : \A y \in S : m <= y

RECURSIVE Pow2(_)
Pow2(k) == IF k <= 0 THEN 1 ELSE 2 * Pow2(k - 1)

\* floor(log2 v) for v >= 1
RECURSIVE FloorLog2(_)
FloorLog2(v) == IF v < 2 THEN 0 ELSE 1 + FloorLog2(v \div 2)

\* least c with v <= 2^c, for v >= 1
CeilLog2(v) == IF Pow2(FloorLog2(v)) = v THEN FloorLog2(v) ELSE FloorLog2(v) + 1

IsPow2(v) == v >= 1 /\ Pow2(FloorLog2(v)) = v

\* 2^k mod d without leaving 32 bits
RECURSIVE Pow2Mod(_, _)
Pow2Mod(k, d) == IF k <= 0 THEN 1 % d ELSE (2 * Pow2Mod(k - 1, d)) % d

\* floor of num/den for den > 0 and any sign of num (Python //)
FloorDiv(num, den) == num \div den

\* np.round / IEEE round-to-nearest-even of the exact quotient num/den, den > 0
RoundHalfEven(num, den) ==
    LET fl == FloorDiv(num, den)
        rem2 == 2 * (num - fl * den)
    IN  IF rem2 > den THEN fl + 1
        ELSE IF rem2 < den THEN fl
        ELSE IF fl % 2 = 0 THEN fl ELSE fl + 1

\* np.clip(v, lo, hi)
Clip(v, lo, hi) == IF v < lo THEN lo ELSE IF v > hi THEN hi ELSE v

\* .astype(np.int8).tobytes() / bytes of a small signed integer
Int8Byte(q) == (q + 256) % 256

\* reading a stored int8 back
ByteInt8(b) == IF b >= 128 THEN b - 256 ELSE b

\* ------------------------------------------------------------------------
\* IEEE formats, in units of the format's smallest subnormal.
\* p is the number of stored mantissa bits (10 for half, 23 for single).
\* ------------------------------------------------------------------------
F16_MANT == 10
F32_MANT == 23

\* spacing of the format's grid at magnitude v (v >= 0, integer part)
RECURSIVE Quantum(_, _)
Quantum(v, p) == IF v < Pow2(p + 1) THEN 1 ELSE 2 * Quantum(v \div 2, p)

\* the nearest representable value to num/den (num >= 0, den > 0), ties to even
FloatRound(num, den, p) ==
    LET q == Quantum(num \div den, p)
    IN  q * RoundHalfEven(num, den * q)

\* the bit pattern of a representable magnitude m (sign bit not included)
FloatBits(m, p) ==
    LET q == Quantum(m, p)
    IN  IF m < Pow2(p + 1) THEN m
        ELSE (FloorLog2(q) + 1) * Pow2(p) + ((m \div q) - Pow2(p))

\* struct.pack('<e', v): two little-endian bytes of the half v = m units
PackF16(m) ==
    LET bits == FloatBits(Abs(m), F16_MANT) + (IF m < 0 THEN 32768 ELSE 0)
    IN  << bits % 256, bits \div 256 >>

\* struct.pack('<f', v): four little-endian bytes of the single v = m units
PackF32(m) ==
    LET bits == FloatBits(Abs(m), F32_MANT)
        top == (bits \div 16777216) + (IF m < 0 THEN 128 ELSE 0)
    IN  << bits % 256, (bits \div 256) % 256, (bits \div 65536) % 256, top >>

\* the magnitude a reader gets back from the stored bytes
UnpackBits(bits, p) ==
    LET e == bits \div Pow2(p)
        mant == bits % Pow2(p)
    IN  IF e = 0 THEN mant ELSE (Pow2(p) + mant) * Pow2(e - 1)

UnpackF16(b) ==
    LET bits == b[1] + 256 * b[2]
    IN  IF bits >= 32768 THEN -UnpackBits(bits - 32768, F16_MANT)
        ELSE UnpackBits(bits, F16_MANT)

UnpackF32(b) ==
    LET bits == b[1] + 256 * b[2] + 65536 * b[3] + 16777216 * (b[4] % 128)
    IN  IF b[4] >= 128 THEN -UnpackBits(bits, F32_MANT)
        ELSE UnpackBits(bits, F32_MANT)

\* np.round(x * id_val) for x >= 0, where id_val = 1.0 / d is rounded to
\* float32 before the float32 multiplication (d >= 1 units).  Away from a tie
\* the result is the rounded exact quotient.  At a tie x/d = h + 1/2 with d
\* not a power of two, the rounded reciprocal R = round(2^k / d), k = 23 +
\* ceil(log2 d), is off by E = R*d - 2^k, the product is off the tie by
\* (2h+1)*E / 2^(k+1), and it is rounded back onto the tie only when that is
\* below half a float32 ulp of the product.
MulRecipRound(x, d) ==
    IF (2 * x) % d # 0 \/ x % d = 0 \/ IsPow2(d)
    THEN RoundHalfEven(x, d)
    ELSE LET h == x \div d
             c == CeilLog2(d)
             rem == Pow2Mod(23 + c, d)
             E == IF 2 * rem > d THEN d - rem ELSE -rem
         IN  IF h = 0 THEN 0
             ELSE IF (2 * h + 1) * Abs(E) < Pow2(FloorLog2(h) + c)
                  THEN RoundHalfEven(x, d)
                  ELSE IF E > 0 THEN h + 1 ELSE h

\* ------------------------------------------------------------------------
\* Encoder results.  A call either returns bytes or raises; `blocks` keeps
\* the per-block locals of the loop (scale, codes, ...) for inspection.
\* ------------------------------------------------------------------------
NoResult == [status |-> "none", bytes |-> << >>, blocks |-> << >>]

EmptyResult == [status |-> "ok", bytes |-> << >>, blocks |-> << >>]

Raised(exc) == [status |-> exc, bytes |-> << >>, blocks |-> << >>]

\* result += <record bytes>, remembering the block's locals
AppendBlock(result, blk) ==
    IF result.status # "ok" THEN result
    ELSE IF blk.status # "ok" THEN Raised(blk.status)
    ELSE [status |-> "ok",
          bytes |-> result.bytes \o blk.bytes,
          blocks |-> Append(result.blocks, blk)]

\* data[i * size : (i + 1) * size], as a 1-based sequence
SliceBlock(data, i, size) == [l \in 1..size |-> data[i * size + l]]

\* np.max(np.abs(block))
AbsMax(block) == SetMax({Abs(block[l]) : l \in 1..Len(block)})

\* ------------------------------------------------------------------------
\* convert-asr-gguf.py: quantize_f32_to_q8_0 (half scale, 34-byte records)
\* ------------------------------------------------------------------------
\* variant: the scale taken as amax / 128
gguf_q8_scale_128(amax) == IF amax > 0 THEN FloatRound(amax, 128, F16_MANT) ELSE 0

\* d = amax / 127.0 if amax > 0 else 0.0; d_f16 = np.float16(d)
gguf_q8_scale(amax) == IF amax > 0 THEN FloatRound(amax, 127, F16_MANT) ELSE 0

\* np.clip(np.round(x * id_val), -128, 127), id_val = 1/d_f16 or 0
gguf_q8_code(x, d_f16) ==
    IF d_f16 = 0 THEN 0
    ELSE Clip(Sign(x) * MulRecipRound(Abs(x), d_f16), -128, 127)

\* variant: amax taken over the whole array instead of the block
gguf_q8_block_global_amax(data, i) ==
    LET block == SliceBlock(data, i, QK8_0)
        d_f16 == gguf_q8_scale(AbsMax(data))
        qs == [l \in 1..QK8_0 |-> gguf_q8_code(block[l], d_f16)]
    IN  [status |-> "ok",
         d |-> d_f16,
         qs |-> qs,
         bytes |-> PackF16(d_f16) \o [l \in 1..QK8_0 |-> Int8Byte(qs[l])]]

gguf_q8_block(data, i) ==
    LET block == SliceBlock(data, i, QK8_0)
        d_f16 == gguf_q8_scale(AbsMax(block))
        qs == [l \in 1..QK8_0 |-> gguf_q8_code(block[l], d_f16)]
    IN  [status |-> "ok",
         d |-> d_f16,
         qs |-> qs,
         bytes |-> PackF16(d_f16) \o [l \in 1..QK8_0 |-> Int8Byte(qs[l])]]

RECURSIVE gguf_q8_loop(_, _, _)
gguf_q8_loop(data, i, result) ==
    IF i >= Len(data) \div QK8_0 THEN result
    ELSE gguf_q8_loop(data, i + 1, AppendBlock(result, gguf_q8_block(data, i)))

\* variant: no length check, the trailing partial block is dropped
gguf_quantize_f32_to_q8_0_unchecked(data) == gguf_q8_loop(data, 0, EmptyResult)

gguf_quantize_f32_to_q8_0(data) ==
    IF Len(data) % QK8_0 # 0 THEN Raised("AssertionError")
    ELSE gguf_q8_loop(data, 0, EmptyResult)

\* ------------------------------------------------------------------------
\* convert-asr-qmodel.py: quantize_f32_to_q8_0 (single scale, 36-byte records)
\* ------------------------------------------------------------------------
\* scale = amax / 127.0 if amax != 0 else 0.0, as stored by struct.pack('<f')
qmodel_q8_scale(amax) == IF amax # 0 THEN FloatRound(amax, 127, F32_MANT) ELSE 0

\* np.clip(np.round(x / scale), -128, 127), or 0 when scale == 0
qmodel_q8_code(x, scale) ==
    IF scale = 0 THEN 0
    ELSE Clip(RoundHalfEven(x, scale), -128, 127)

qmodel_q8_block(data, i) ==
    LET block == SliceBlock(data, i, QK8_0)
        scale == qmodel_q8_scale(AbsMax(block))
        qs == [l \in 1..QK8_0 |-> qmodel_q8_code(block[l], scale)]
    IN  [status |-> "ok",
         d |-> scale,
         qs |-> qs,
         bytes |-> PackF32(scale) \o [l \in 1..QK8_0 |-> Int8Byte(qs[l])]]

RECURSIVE qmodel_q8_loop(_, _, _)
qmodel_q8_loop(data, i, result) ==
    IF i >= Len(data) \div QK8_0 THEN result
    ELSE qmodel_q8_loop(data, i + 1, AppendBlock(result, qmodel_q8_block(data, i)))

qmodel_quantize_f32_to_q8_0(data) ==
    IF Len(data) % QK8_0 # 0 THEN Raised("AssertionError")
    ELSE LET result == qmodel_q8_loop(data, 0, EmptyResult)
         IN  IF Len(result.bytes) # (Len(data) \div QK8_0) * BLOCK_Q8_0_SIZE
             THEN Raised("AssertionError")
             ELSE result

\* ------------------------------------------------------------------------
\* convert-asr-gguf.py: quantize_f32_to_q4_K (144-byte records)
\* ------------------------------------------------------------------------
\* Python / numpy integer bit operations on non-negative integers
RECURSIVE BitOr(_, _)
BitOr(a, b) ==
    IF a = 0 THEN b
    ELSE IF b = 0 THEN a
    ELSE (IF a % 2 = 1 \/ b % 2 = 1 THEN 1 ELSE 0) + 2 * BitOr(a \div 2, b \div 2)

RECURSIVE BitAnd(_, _)
BitAnd(a, b) ==
    IF a = 0 \/ b = 0 THEN 0
    ELSE (IF a % 2 = 1 /\ b % 2 = 1 THEN 1 ELSE 0) + 2 * BitAnd(a \div 2, b \div 2)

Shl(a, k) == a * Pow2(k)

Shr(a, k) == a \div Pow2(k)

\* q_arr[j] = value, for a np.uint8 array and a Python int: a value outside
\* 0..255 raises OverflowError under NumPy >= 2 and wraps modulo 256 before.
Uint8Store(value, np2) ==
    IF value >= 0 /\ value <= 255 THEN [ok |-> TRUE, v |-> value]
    ELSE IF np2 THEN [ok |-> FALSE, v |-> 0]
    ELSE [ok |-> TRUE, v |-> value % 256]

\* per sub-block: sub_min, sub_max; scales[j] = (sub_max - sub_min) / 15 is
\* kept as its numerator `range` (0 when sub_max == sub_min); mins[j] = -sub_min
q4k_sub(block, j) ==
    LET vals == {block[j * 32 + l] : l \in 1..32}
        sub_min == SetMin(vals)
        sub_max == SetMax(vals)
    IN  [range |-> sub_max - sub_min, min |-> -sub_min]

\* min(63, int(np.round(scales[j] * inv_max_scale))), inv_max_scale = 63/max_scale or 0
q4k_q_scale(range, max_range) ==
    IF max_range > 0 THEN MinInt(63, RoundHalfEven(63 * range, max_range)) ELSE 0

\* min(63, int(np.round(mins[j] * inv_max_min))), inv_max_min = 63/max_min or 0
q4k_q_min(min, max_min) ==
    IF max_min > 0 THEN MinInt(63, RoundHalfEven(63 * min, max_min)) ELSE 0

\* np.float16(max_scale / 63.0), max_scale = max_range / 15
q4k_d(max_range) == FloatRound(max_range, 15 * 63, F16_MANT)

\* np.float16(max_min / 63.0)
q4k_dmin(max_min) == Sign(max_min) * FloatRound(Abs(max_min), 63, F16_MANT)

\* struct.pack('<e', float(dmin)).  mins[j] = -sub_min is -0.0 for a sub-block
\* whose minimum is 0.0, so a max_min of zero is a negative zero and keeps
\* its sign bit through the division and the conversion to half.
q4k_pack_dmin(dmin, max_min) ==
    IF dmin = 0 /\ max_min <= 0 THEN << 0, 128 >> ELSE PackF16(dmin)

\* variant: only the low nibbles are stored, one sub-block per byte
q4k_pack_scales_low4(qs, qm) ==
    [k \in 1..12 |-> IF k <= 8 THEN (qs[k] % 16) + 16 * (qm[k] % 16) ELSE 0]

\* the 12 bytes of packed_scales, from the stored q_scales / q_mins (0-based j)
q4k_pack_scales(qs, qm) ==
    LET S(j) == qs[j + 1]
        M(j) == qm[j + 1]
        b0(j) == BitOr(BitAnd(S(j), 63), BitAnd(Shl(BitAnd(M(j), 63), 6), 255))
        b1(j) == BitOr(BitAnd(Shr(M(j), 2), 15), BitAnd(Shl(BitAnd(S(j + 1), 63), 4), 255))
        b2(j) == BitOr(BitAnd(Shr(S(j + 1), 4), 3), BitAnd(Shl(BitAnd(M(j + 1), 63), 2), 255))
    IN  << b0(0), b1(0), b2(0), b0(2), b1(2), b2(2),
           b0(4), b1(4), b2(4), b0(6), b1(6), b2(6) >>

\* variant: the quotient truncated by int() instead of rounded
q4k_code_truncating(val, sc, mn) ==
    LET q == IF sc > 0 THEN FloorDiv(val + mn, sc) ELSE 0
    IN  MaxInt(0, MinInt(15, q))

\* the 4-bit code of one element: sc = d * q_scales[j], mn = dmin * q_mins[j]
q4k_code(val, sc, mn) ==
    LET q == IF sc > 0 THEN RoundHalfEven(val + mn, sc) ELSE 0
    IN  MaxInt(0, MinInt(15, q))

\* variant: the even-indexed element in the high nibble
q4k_pack_codes_swapped(codes) ==
    [k \in 1..(QK_K \div 2) |-> codes[2 * k] + 16 * codes[2 * k - 1]]

\* qs[idx // 2] = q for even idx, |= q << 4 for odd idx
q4k_pack_codes(codes) ==
    [k \in 1..(QK_K \div 2) |-> BitOr(codes[2 * k - 1], Shl(codes[2 * k], 4))]

q4k_block(data, i, np2) ==
    LET block == SliceBlock(data, i, QK_K)
        subs == [j \in 1..8 |-> q4k_sub(block, j - 1)]
        max_range == SetMax({subs[j].range : j \in 1..8})
        max_min == SetMax({subs[j].min : j \in 1..8})
        d == q4k_d(max_range)
        dmin == q4k_dmin(max_min)
        st_s == [j \in 1..8 |-> Uint8Store(q4k_q_scale(subs[j].range, max_range), np2)]
        st_m == [j \in 1..8 |-> Uint8Store(q4k_q_min(subs[j].min, max_min), np2)]
        q_scales == [j \in 1..8 |-> st_s[j].v]
        q_mins == [j \in 1..8 |-> st_m[j].v]
        codes == [idx \in 1..QK_K |->
                    LET j == ((idx - 1) \div 32) + 1
                    IN  q4k_code(block[idx], d * q_scales[j], dmin * q_mins[j])]
    IN  IF \E j \in 1..8 : ~st_s[j].ok \/ ~st_m[j].ok
        THEN [status |-> "OverflowError"]
        ELSE [status |-> "ok",
              d |-> d,
              dmin |-> dmin,
              q_scales |-> q_scales,
              q_mins |-> q_mins,
              codes |-> codes,
              bytes |-> PackF16(d) \o q4k_pack_dmin(dmin, max_min)
                        \o q4k_pack_scales(q_scales, q_mins)
                        \o q4k_pack_codes(codes)]

RECURSIVE q4k_loop(_, _, _, _)
q4k_loop(data, i, result, np2) ==
    IF i >= Len(data) \div QK_K THEN result
    ELSE q4k_loop(data, i + 1, AppendBlock(result, q4k_block(data, i, np2)), np2)

quantize_f32_to_q4_K(data, np2) ==
    IF Len(data) % QK_K # 0 THEN Raised("AssertionError")
    ELSE q4k_loop(data, 0, EmptyResult, np2)

\* ------------------------------------------------------------------------
\* State
\* ------------------------------------------------------------------------
VARIABLES
    numpy2,     \* the installed NumPy is version 2 or later
    codec,      \* the encoder this run calls
    data,       \* the caller's input array
    data_in,    \* the array as it was handed over (history)
    rets        \* what the calls made so far returned, in call order

encVars == << numpy2, codec, data, data_in, rets >>

VARIABLES
    kv_pairs,       \* GGUFWriter.kv_pairs: (key, type, value bytes)
    tensors,        \* GGUFWriter.tensors: (name, ndim, shape, type, data)
    wpc,            \* where the tagged converter's run is
    widx,           \* index of the loop of write() that is running
    offsets,        \* write(): the offsets list
    data_start,     \* write(): position of the data section
    out_file        \* the file at the output path: does it exist, its bytes

wrVars == << kv_pairs, tensors, wpc, widx, offsets, data_start, out_file >>

VARIABLES
    script,         \* which converter runs: "qmodel", "gguf", "none"
    argc,           \* len(sys.argv)
    config,         \* config.json of the model directory, as a dict
    has_shards,     \* the model directory holds *.safetensors files
    src_enc_layers, \* encoder layers held by the source tensors
    src_dec_layers, \* decoder layers held by the source tensors
    src_wide,       \* the source tensors have the 1.7B dimensions
    absent,         \* keys the layout needs that the source lacks
    ragged,         \* keys holding 16 elements more than their shape gives
    resized,        \* keys holding 256 elements more than their shape gives
    toy,            \* gate and up matrices of a decoder layer, in small
    cpc,            \* where the converter's run is
    raised,         \* the exception that ended the run, if one did
    cidx,           \* position in the emission order (1-based)
    exit_code,      \* exit status of the converter, -1 while running
    flat_file,      \* flat converter: the file at the output path
    added,          \* tagged converter: the add_tensor calls made so far
    tagged_file     \* tagged converter: the file at the output path

\* what a run is given; no step changes it
srcVars == << script, argc, config, has_shards, src_enc_layers, src_dec_layers,
              src_wide, absent, ragged, resized, toy >>

taggedOut == << added, tagged_file >>

cvVars == << srcVars, cpc, raised, cidx, exit_code, flat_file, taggedOut >>

VARIABLES
    refresh,        \* generate_refs: the refresh argument
    show_output,    \* run_once: the show_output argument
    explicit_seg,   \* extra_args holds -S or --segment-overlap
    refs,           \* per WAV, its .txt: "none", "old", "new", "rewritten"
    ref_writes,     \* the WAVs whose reference was written, in order
    transcribed,    \* the WAVs transcribe was called for, in order
    gpc,            \* where generate_refs is
    gidx,           \* position in wav_list (1-based)
    generated,      \* the counter generate_refs returns
    tpc,            \* where transcribe is
    runs,           \* the engine runs of the current transcribe call
    rpc,            \* where run_once is
    proc,           \* the child process of the current run
    elapsed,        \* ticks since the child was started
    waited          \* ticks since proc.wait(timeout=timeout_s) was called

hvVars == << refresh, show_output, explicit_seg, refs, ref_writes, transcribed,
             gpc, gidx, generated, tpc, runs, rpc, proc, elapsed, waited >>

vars == << encVars, wrVars, cvVars, hvVars >>

NoProc == [state |-> "none", stdout_open |-> FALSE, wrote |-> FALSE,
           returncode |-> 0]

HarnessIdle ==
    /\ refresh = FALSE
    /\ show_output = FALSE
    /\ explicit_seg = FALSE
    /\ refs = << >>
    /\ ref_writes = << >>
    /\ transcribed = << >>
    /\ gpc = "idle"
    /\ gidx = 0
    /\ generated = 0
    /\ tpc = "idle"
    /\ runs = << >>
    /\ rpc = "idle"
    /\ proc = NoProc
    /\ elapsed = 0
    /\ waited = 0


\* sizes and positions in the flat file are counted in 4-byte words
NoFlatFile == [exists |-> FALSE, header |-> << >>, parts |-> << >>]

NoTaggedFile == [exists |-> FALSE, entries |-> << >>]

NoError == [type |-> "none", key |-> << >>]

\* an exception that reaches the top level; key is the argument of a KeyError
Error(type) == [type |-> type, key |-> << >>]

NoToy == [rows |-> 0, cols |-> 0, gate |-> << >>, up |-> << >>]

\* a dict without keys
EmptyDict == [k \in {} |-> 0]

\* config.json: its top-level integer keys, the audio_config and text_config
\* sections at the top level, and those inside thinker_config
NoConfig ==
    [top |-> EmptyDict,
     has_audio |-> FALSE, audio |-> EmptyDict,
     has_text |-> FALSE, text |-> EmptyDict,
     has_thinker |-> FALSE,
     has_t_audio |-> FALSE, t_audio |-> EmptyDict,
     has_t_text |-> FALSE, t_text |-> EmptyDict]

ConvIdle ==
    /\ script = "none"
    /\ argc = 0
    /\ config = NoConfig
    /\ has_shards = FALSE
    /\ src_enc_layers = 0
    /\ src_dec_layers = 0
    /\ src_wide = FALSE
    /\ absent = {}
    /\ ragged = {}
    /\ resized = {}
    /\ toy = NoToy
    /\ cpc = "idle"
    /\ raised = NoError
    /\ cidx = 0
    /\ exit_code = -1
    /\ flat_file = NoFlatFile
    /\ added = << >>
    /\ tagged_file = NoTaggedFile

NoFile == [exists |-> FALSE, bytes |-> << >>]

EncIdle ==
    /\ numpy2 = FALSE
    /\ codec = "none"
    /\ data = << >>
    /\ data_in = << >>
    /\ rets = << >>

WriterIdle ==
    /\ kv_pairs = << >>
    /\ tensors = << >>
    /\ wpc = "idle"
    /\ widx = 0
    /\ offsets = << >>
    /\ data_start = 0
    /\ out_file = NoFile

\* ------------------------------------------------------------------------
\* Bounded inputs of the encoders
\* ------------------------------------------------------------------------
\* largest factor the element patterns are scaled by
MaxMul == 2

\* calls of the encoder on the same array in one run
MaxCalls == 2

\* element patterns of one 32-element sub-block, in units; a sub-block repeats
\* its pattern cyclically
Shapes ==
    << << 0 >>,                          \* all zero
       << 1, -1, 0 >>,                   \* amax / 127 below half a unit
       << -178, 100, 3 >>,               \* amax / 127 = 1.4 units
       << 254, 5, -7, 127 >>,            \* scale 2, ties at a power of two
       << 1778, -889, 7, 21, 63 >>,      \* scale 14, ties at a non power of two
       << 100, 115, 107 >>,              \* positive minimum
       << -630, 315, 0, 94 >>,           \* negative minimum, range 945
       << 300000, -130000, 5000 >> >>    \* scale 2362.2, beyond the unit grid

Lengths == {0, 20, 32, 40, 64, 256, 300, 512}

Codecs == {"gguf_q8_0", "qmodel_q8_0", "q4_K"}

\* sub-block k (0-based) takes pattern a when k is a multiple of 3, else b
MakeData(n, a, b, mul) ==
    [idx \in 1..n |->
        LET k == (idx - 1) \div 32
            l == (idx - 1) % 32
            shape == IF k % 3 = 0 THEN Shapes[a] ELSE Shapes[b]
        IN  mul * shape[(l % Len(shape)) + 1]]

Inputs ==
    {MakeData(n, a, b, mul) :
        n \in Lengths, a \in 1..Len(Shapes), b \in 1..Len(Shapes), mul \in 1..MaxMul}

\* ------------------------------------------------------------------------
\* Calls of the encoders
\* ------------------------------------------------------------------------
Encode(c, arr, np2) ==
    IF c = "gguf_q8_0" THEN gguf_quantize_f32_to_q8_0(arr)
    ELSE IF c = "qmodel_q8_0" THEN qmodel_quantize_f32_to_q8_0(arr)
    ELSE quantize_f32_to_q4_K(arr, np2)

\* variant: the blocks scaled in place (block *= id_val on the slice views)
ArrayAfterCallInPlace(c, arr) == [i \in 1..Len(arr) |-> 2 * arr[i]]

\* The caller's array after a call.  The tagged encoders only read slices of
\* it (np.abs, block * id_val, np.min build new arrays); the flat encoder
\* works on the copy made by flatten().astype(np.float32).
ArrayAfterCall(c, arr) == arr

EncInit ==
    /\ numpy2 \in BOOLEAN
    /\ codec \in Codecs
    /\ data \in Inputs
    /\ data_in = data
    /\ rets = << >>
    /\ WriterIdle
    /\ ConvIdle
    /\ HarnessIdle

CallEncoder(c) ==
    /\ codec = c
    /\ Len(rets) < MaxCalls
    /\ rets' = Append(rets, Encode(c, data, numpy2))
    /\ data' = ArrayAfterCall(c, data)
    /\ UNCHANGED << numpy2, codec, data_in >>
    /\ UNCHANGED << wrVars, cvVars, hvVars >>

CallGgufQ8 == CallEncoder("gguf_q8_0")

CallQmodelQ8 == CallEncoder("qmodel_q8_0")

CallQ4K == CallEncoder("q4_K")

EncNext == CallGgufQ8 \/ CallQmodelQ8 \/ CallQ4K

SpecEnc == EncInit /\ [][EncNext]_vars

\* ------------------------------------------------------------------------
\* convert-asr-gguf.py: GGUFWriter and the run of main() around it
\* ------------------------------------------------------------------------
GGUF_MAGIC == 1179993927
GGUF_VERSION == 3
GGML_TYPE_F32 == 0
GGML_TYPE_F16 == 1
GGML_TYPE_Q8_0 == 8
GGML_TYPE_Q4_K == 12
GGUF_VAL_UINT32 == 4
GGUF_VAL_STRING == 8

\* struct.pack('<I', n) for k = 4, struct.pack('<Q', n) for k = 8
RECURSIVE PackLE(_, _)
PackLE(n, k) == IF k = 0 THEN << >> ELSE << n % 256 >> \o PackLE(n \div 256, k - 1)

Zeros(n) == [i \in 1..n |-> 0]

\* (x + align - 1) & ~(align - 1)
AlignUp(x) == ((x + GGUF_ALIGNMENT - 1) \div GGUF_ALIGNMENT) * GGUF_ALIGNMENT

\* add_u32: the record appended to kv_pairs
KVUint32(key, value) ==
    [key |-> key, type |-> GGUF_VAL_UINT32, val_bytes |-> PackLE(value, 4)]

\* add_string: the record appended to kv_pairs
KVString(key, value) ==
    [key |-> key, type |-> GGUF_VAL_STRING, val_bytes |-> PackLE(Len(value), 8) \o value]

\* add_tensor: the record appended to tensors
TensorEntry(name, shape, ggml_type, bytes) ==
    [name |-> name, ndim |-> Len(shape), shape |-> shape, type |-> ggml_type, data |-> bytes]

\* a header with the two counts in the wrong order
HeaderBytesCountsSwapped(n_tensors, n_kv) ==
    PackLE(GGUF_MAGIC, 4) \o PackLE(GGUF_VERSION, 4) \o PackLE(n_kv, 8) \o PackLE(n_tensors, 8)

\* write(): the header
HeaderBytes(n_tensors, n_kv) ==
    PackLE(GGUF_MAGIC, 4) \o PackLE(GGUF_VERSION, 4) \o PackLE(n_tensors, 8) \o PackLE(n_kv, 8)

\* write(): one key/value record
KVBytes(kv) ==
    PackLE(Len(kv.key), 8) \o kv.key \o PackLE(kv.type, 4) \o kv.val_bytes

\* a first pass that records the running offset without aligning it
RECURSIVE OffsetsPassUnaligned(_, _, _, _)
OffsetsPassUnaligned(ts, k, current_offset, acc) ==
    IF k > Len(ts) THEN acc
    ELSE OffsetsPassUnaligned(ts, k + 1, current_offset + Len(ts[k].data),
                              Append(acc, current_offset))

\* write(): the first pass over self.tensors, from tensor k on
RECURSIVE OffsetsPass(_, _, _, _)
OffsetsPass(ts, k, current_offset, acc) ==
    IF k > Len(ts) THEN acc
    ELSE LET aligned == AlignUp(current_offset)
         IN  OffsetsPass(ts, k + 1, aligned + Len(ts[k].data), Append(acc, aligned))

RECURSIVE DimsBytes(_, _)
DimsBytes(shape, k) ==
    IF k > Len(shape) THEN << >> ELSE PackLE(shape[k], 8) \o DimsBytes(shape, k + 1)

\* write(): one directory entry
InfoBytes(t, offset) ==
    PackLE(Len(t.name), 8) \o t.name \o PackLE(t.ndim, 4) \o DimsBytes(t.shape, 1)
        \o PackLE(t.type, 4) \o PackLE(offset, 8)

\* the payload appended where the file stands, without padding
PayloadBytesUnpadded(current, target, bytes) == bytes

\* write(): zero padding up to `target`, then the payload
PayloadBytes(current, target, bytes) ==
    (IF current < target THEN Zeros(target - current) ELSE << >>) \o bytes

\* ---- bounded inputs of the writer
MaxKV == 2
MaxTensors == 3

\* metadata keys "k" (add_u32) and "q.n" (add_string)
U32Key == << 107 >>

StringKey == << 113, 46, 110 >>

NameOf(k) == IF k % 2 = 0 THEN << 119 >> ELSE << 98, 105, 97 >>

\* payloads of 0, 5, 32 and 40 bytes; payload bytes are never zero
PayloadLengths == {0, 5, 32, 40}

Payload(n) == [i \in 1..n |-> 160 + (i % 7)]

GGUFInit ==
    /\ EncIdle
    /\ ConvIdle
    /\ HarnessIdle
    /\ kv_pairs = << >>
    /\ tensors = << >>
    /\ wpc = "build"
    /\ widx = 0
    /\ offsets = << >>
    /\ data_start = 0
    /\ out_file = NoFile

\* ---- main(): the metadata and tensors collected before write()
AddU32 ==
    /\ wpc = "build"
    /\ Len(kv_pairs) < MaxKV
    /\ kv_pairs' = Append(kv_pairs, KVUint32(U32Key, 896))
    /\ UNCHANGED << tensors, wpc, widx, offsets, data_start, out_file >>
    /\ UNCHANGED << encVars, cvVars, hvVars >>

AddString ==
    /\ wpc = "build"
    /\ Len(kv_pairs) < MaxKV
    /\ kv_pairs' = Append(kv_pairs, KVString(StringKey, << 113, 119 >>))
    /\ UNCHANGED << tensors, wpc, widx, offsets, data_start, out_file >>
    /\ UNCHANGED << encVars, cvVars, hvVars >>

AddTensor ==
    /\ wpc = "build"
    /\ Len(tensors) < MaxTensors
    /\ \E n \in PayloadLengths :
        tensors' = Append(tensors,
                          TensorEntry(NameOf(Len(tensors)), << n >>, GGML_TYPE_F32, Payload(n)))
    /\ UNCHANGED << kv_pairs, wpc, widx, offsets, data_start, out_file >>
    /\ UNCHANGED << encVars, cvVars, hvVars >>

\* main(): a tensor lookup (KeyError) or a divisibility assert raises before
\* write() is reached
MainRaises ==
    /\ wpc = "build"
    /\ wpc' = "failed"
    /\ UNCHANGED << kv_pairs, tensors, widx, offsets, data_start, out_file >>
    /\ UNCHANGED << encVars, cvVars, hvVars >>

\* main(): writer.write(output_path)
CallWrite ==
    /\ wpc = "build"
    /\ wpc' = "open"
    /\ UNCHANGED << kv_pairs, tensors, widx, offsets, data_start, out_file >>
    /\ UNCHANGED << encVars, cvVars, hvVars >>

\* ---- write(), statement by statement
\* open(path, 'wb') creates or truncates the file at the output path itself
WriteOpen ==
    /\ wpc = "open"
    /\ out_file' = [exists |-> TRUE, bytes |-> << >>]
    /\ wpc' = "header"
    /\ UNCHANGED << kv_pairs, tensors, widx, offsets, data_start >>
    /\ UNCHANGED << encVars, cvVars, hvVars >>

WriteHeader ==
    /\ wpc = "header"
    /\ out_file' = [out_file EXCEPT !.bytes = @ \o HeaderBytes(Len(tensors), Len(kv_pairs))]
    /\ widx' = 0
    /\ wpc' = IF Len(kv_pairs) > 0 THEN "kv" ELSE "offsets"
    /\ UNCHANGED << kv_pairs, tensors, offsets, data_start >>
    /\ UNCHANGED << encVars, cvVars, hvVars >>

WriteKV ==
    /\ wpc = "kv"
    /\ out_file' = [out_file EXCEPT !.bytes = @ \o KVBytes(kv_pairs[widx + 1])]
    /\ widx' = IF widx + 1 < Len(kv_pairs) THEN widx + 1 ELSE 0
    /\ wpc' = IF widx + 1 < Len(kv_pairs) THEN "kv" ELSE "offsets"
    /\ UNCHANGED << kv_pairs, tensors, offsets, data_start >>
    /\ UNCHANGED << encVars, cvVars, hvVars >>

\* an offsets pass that writes the first directory entry while it runs
ComputeOffsetsWhileWriting ==
    /\ wpc = "offsets"
    /\ offsets' = OffsetsPass(tensors, 1, 0, << >>)
    /\ out_file' = [out_file EXCEPT !.bytes = @ \o PackLE(Len(tensors), 8)]
    /\ widx' = 0
    /\ wpc' = IF Len(tensors) > 0 THEN "infos" ELSE "align"
    /\ UNCHANGED << kv_pairs, tensors, data_start >>
    /\ UNCHANGED << encVars, cvVars, hvVars >>

ComputeOffsets ==
    /\ wpc = "offsets"
    /\ offsets' = OffsetsPass(tensors, 1, 0, << >>)
    /\ widx' = 0
    /\ wpc' = IF Len(tensors) > 0 THEN "infos" ELSE "align"
    /\ UNCHANGED << kv_pairs, tensors, data_start, out_file >>
    /\ UNCHANGED << encVars, cvVars, hvVars >>

WriteInfo ==
    /\ wpc = "infos"
    /\ out_file' = [out_file EXCEPT
                      !.bytes = @ \o InfoBytes(tensors[widx + 1], offsets[widx + 1])]
    /\ widx' = IF widx + 1 < Len(tensors) THEN widx + 1 ELSE 0
    /\ wpc' = IF widx + 1 < Len(tensors) THEN "infos" ELSE "align"
    /\ UNCHANGED << kv_pairs, tensors, offsets, data_start >>
    /\ UNCHANGED << encVars, cvVars, hvVars >>

WriteAlign ==
    /\ wpc = "align"
    /\ LET pos == Len(out_file.bytes)
           aligned_pos == AlignUp(pos)
       IN  /\ out_file' = [out_file EXCEPT !.bytes = @ \o Zeros(aligned_pos - pos)]
           /\ data_start' = aligned_pos
    /\ widx' = 0
    /\ wpc' = IF Len(tensors) > 0 THEN "data" ELSE "close"
    /\ UNCHANGED << kv_pairs, tensors, offsets >>
    /\ UNCHANGED << encVars, cvVars, hvVars >>

WriteData ==
    /\ wpc = "data"
    /\ LET target == data_start + offsets[widx + 1]
           current == Len(out_file.bytes)
       IN  out_file' = [out_file EXCEPT
                          !.bytes = @ \o PayloadBytes(current, target, tensors[widx + 1].data)]
    /\ widx' = IF widx + 1 < Len(tensors) THEN widx + 1 ELSE 0
    /\ wpc' = IF widx + 1 < Len(tensors) THEN "data" ELSE "close"
    /\ UNCHANGED << kv_pairs, tensors, offsets, data_start >>
    /\ UNCHANGED << encVars, cvVars, hvVars >>

\* leaving the with block closes the file; nothing is renamed or removed
WriteClose ==
    /\ wpc = "close"
    /\ wpc' = "done"
    /\ UNCHANGED << kv_pairs, tensors, widx, offsets, data_start, out_file >>
    /\ UNCHANGED << encVars, cvVars, hvVars >>

\* open() raises: the file was not created
OpenRaises ==
    /\ wpc = "open"
    /\ wpc' = "failed"
    /\ UNCHANGED << kv_pairs, tensors, widx, offsets, data_start, out_file >>
    /\ UNCHANGED << encVars, cvVars, hvVars >>

\* an f.write raises (full disk, I/O error): the with block closes the file
\* and the exception ends the run; write() has no handler that removes it
WriteRaises ==
    /\ wpc \in {"header", "kv", "infos", "align", "data"}
    /\ wpc' = "failed"
    /\ UNCHANGED << kv_pairs, tensors, widx, offsets, data_start, out_file >>
    /\ UNCHANGED << encVars, cvVars, hvVars >>

GGUFNext ==
    \/ AddU32 \/ AddString \/ AddTensor \/ MainRaises \/ CallWrite
    \/ WriteOpen \/ WriteHeader \/ WriteKV \/ ComputeOffsets \/ WriteInfo
    \/ WriteAlign \/ WriteData \/ WriteClose \/ OpenRaises \/ WriteRaises

SpecGGUF == GGUFInit /\ [][GGUFNext]_vars

\* ---------------------------------------------------------------------
\* convert-asr-qmodel.py: one run of the flat converter.  A tensor key is
\* << tower, layer, name >>, layer -1 for tensors outside the layer loops.
\* ---------------------------------------------------------------------
ENC_LAYERS_SMALL == 18

ENC_LAYERS_LARGE == 24

DEC_LAYERS == 28

Entry(gets, uses, kind) == [gets |-> gets, uses |-> uses, kind |-> kind]

GetF32(tower, i, name) ==
    Entry(<< << tower, i, name >> >>, << << tower, i, name >> >>, "f32")

GetF32Q8(tower, i, name) ==
    Entry(<< << tower, i, name >> >>, << << tower, i, name >> >>, "q8_0")

GetBf16Q8(tower, i, name) ==
    Entry(<< << tower, i, name >> >>, << << tower, i, name >> >>, "q8_0")

ConvStem ==
    << GetF32("enc", -1, "conv2d1.weight"),
       GetF32("enc", -1, "conv2d1.bias"),
       GetF32Q8("enc", -1, "conv2d2.weight"),
       GetF32("enc", -1, "conv2d2.bias"),
       GetF32Q8("enc", -1, "conv2d3.weight"),
       GetF32("enc", -1, "conv2d3.bias"),
       GetBf16Q8("enc", -1, "conv_out.weight") >>

EncLayer(i) ==
    << GetBf16Q8("enc", i, "self_attn.q_proj.weight"),
       GetF32("enc", i, "self_attn.q_proj.bias"),
       GetBf16Q8("enc", i, "self_attn.k_proj.weight"),
       GetF32("enc", i, "self_attn.k_proj.bias"),
       GetBf16Q8("enc", i, "self_attn.v_proj.weight"),
       GetF32("enc", i, "self_attn.v_proj.bias"),
       GetBf16Q8("enc", i, "self_attn.out_proj.weight"),
       GetF32("enc", i, "self_attn.out_proj.bias"),
       GetF32("enc", i, "self_attn_layer_norm.weight"),
       GetF32("enc", i, "self_attn_layer_norm.bias"),
       GetBf16Q8("enc", i, "fc1.weight"),
       GetF32("enc", i, "fc1.bias"),
       GetBf16Q8("enc", i, "fc2.weight"),
       GetF32("enc", i, "fc2.bias"),
       GetF32("enc", i, "final_layer_norm.weight"),
       GetF32("enc", i, "final_layer_norm.bias") >>

EncPost ==
    << GetF32("enc", -1, "ln_post.weight"),
       GetF32("enc", -1, "ln_post.bias"),
       GetBf16Q8("enc", -1, "proj1.weight"),
       GetF32("enc", -1, "proj1.bias"),
       GetBf16Q8("enc", -1, "proj2.weight"),
       GetF32("enc", -1, "proj2.bias") >>

\* the token embedding is looked up once and written twice
TokEmbeddings ==
    << Entry(<< << "dec", -1, "embed_tokens.weight" >> >>,
             << << "dec", -1, "embed_tokens.weight" >> >>, "bf16"),
       Entry(<< >>, << << "dec", -1, "embed_tokens.weight" >> >>, "q8_0") >>

DecLayer(i) ==
    << GetBf16Q8("dec", i, "self_attn.q_proj.weight"),
       GetBf16Q8("dec", i, "self_attn.k_proj.weight"),
       GetBf16Q8("dec", i, "self_attn.v_proj.weight"),
       GetBf16Q8("dec", i, "self_attn.o_proj.weight"),
       GetF32("dec", i, "self_attn.q_norm.weight"),
       GetF32("dec", i, "self_attn.k_norm.weight"),
       GetF32("dec", i, "input_layernorm.weight"),
       GetF32("dec", i, "post_attention_layernorm.weight"),
       Entry(<< << "dec", i, "mlp.gate_proj.weight" >>,
                << "dec", i, "mlp.up_proj.weight" >> >>,
             << << "dec", i, "mlp.gate_proj.weight" >>,
                << "dec", i, "mlp.up_proj.weight" >> >>, "fused_q8_0"),
       GetBf16Q8("dec", i, "mlp.down_proj.weight") >>

RECURSIVE EncLayers(_, _)
EncLayers(i, n) == IF i >= n THEN << >> ELSE EncLayer(i) \o EncLayers(i + 1, n)

RECURSIVE DecLayers(_, _)
DecLayers(i, n) == IF i >= n THEN << >> ELSE DecLayer(i) \o DecLayers(i + 1, n)

\* the writes of convert, in the order the code performs them
EmissionOrder(enc_layers, dec_layers) ==
    ConvStem \o EncLayers(0, enc_layers) \o EncPost \o TokEmbeddings
        \o DecLayers(0, dec_layers)
        \o << GetF32("dec", -1, "norm.weight") >>

KeysRead(order) ==
    UNION { { order[n].gets[j] : j \in DOMAIN order[n].gets } : n \in DOMAIN order }

\* the two layouts the converter can produce
OrderSmall == EmissionOrder(ENC_LAYERS_SMALL, DEC_LAYERS)

OrderLarge == EmissionOrder(ENC_LAYERS_LARGE, DEC_LAYERS)

\* layer counts a source model is tried with
SrcLayerChoices == {12, 18, 20, 24, 28, 30}

\* every name a source model of these sizes can hold
KeysMax == KeysRead(EmissionOrder(SetMax(SrcLayerChoices), SetMax(SrcLayerChoices)))

\* name in tensor_map: the opened shards hold the name k
InTensorMap(k) ==
    /\ k \in KeysMax
    /\ k[2] < (IF k[1] = "enc" THEN src_enc_layers ELSE src_dec_layers)
    /\ k \notin absent

detect_model_variant ==
    IF InTensorMap(<< "enc", ENC_LAYERS_SMALL, "self_attn.q_proj.weight" >>)
    THEN "1.7B" ELSE "0.6B"

QMODEL_MAGIC == 944590145

QMODEL_VERSION == 1

CONV_HIDDEN == 480

CONV_KERNEL == 3

get_config(variant) ==
    IF variant = "1.7B"
    THEN [enc_d_model |-> 1024, enc_layers |-> ENC_LAYERS_LARGE, enc_heads |-> 16,
          enc_head_dim |-> 64, enc_ffn_dim |-> 4096, enc_output_dim |-> 2048,
          dec_hidden |-> 2048, dec_layers |-> DEC_LAYERS, dec_heads |-> 16,
          dec_kv_heads |-> 8, dec_head_dim |-> 128, dec_intermediate |-> 6144,
          vocab_size |-> 151936]
    ELSE [enc_d_model |-> 896, enc_layers |-> ENC_LAYERS_SMALL, enc_heads |-> 14,
          enc_head_dim |-> 64, enc_ffn_dim |-> 3584, enc_output_dim |-> 1024,
          dec_hidden |-> 1024, dec_layers |-> DEC_LAYERS, dec_heads |-> 16,
          dec_kv_heads |-> 8, dec_head_dim |-> 128, dec_intermediate |-> 3072,
          vocab_size |-> 151936]

\* the configuration convert works with
ConvertCfg == get_config(detect_model_variant)

ConvertOrder ==
    IF ConvertCfg.enc_layers = ENC_LAYERS_LARGE THEN OrderLarge ELSE OrderSmall

\* write_header: the bytes written
FlatHeaderBytes(cfg) ==
    LET fields == PackLE(QMODEL_MAGIC, 4) \o PackLE(QMODEL_VERSION, 4)
                    \o PackLE(cfg.enc_d_model, 4) \o PackLE(cfg.enc_layers, 4)
                    \o PackLE(cfg.enc_heads, 4) \o PackLE(cfg.enc_head_dim, 4)
                    \o PackLE(cfg.enc_ffn_dim, 4) \o PackLE(cfg.enc_output_dim, 4)
                    \o PackLE(cfg.dec_hidden, 4) \o PackLE(cfg.dec_layers, 4)
                    \o PackLE(cfg.dec_heads, 4) \o PackLE(cfg.dec_kv_heads, 4)
                    \o PackLE(cfg.dec_head_dim, 4) \o PackLE(cfg.dec_intermediate, 4)
                    \o PackLE(cfg.vocab_size, 4)
    IN  fields \o Zeros(HEADER_SIZE - Len(fields))

\* element count the architecture gives the tensor `key` under the
\* hyperparameters cfg
ShapeCount(key, cfg) ==
    LET name == key[3]
        d == cfg.enc_d_model
        h == cfg.dec_hidden
        q == cfg.dec_heads * cfg.dec_head_dim
        kv == cfg.dec_kv_heads * cfg.dec_head_dim
    IN  IF key[1] = "enc" THEN
            CASE name = "conv2d1.weight" -> CONV_HIDDEN * CONV_KERNEL * CONV_KERNEL
              [] name \in {"conv2d2.weight", "conv2d3.weight"}
                    -> CONV_HIDDEN * CONV_HIDDEN * CONV_KERNEL * CONV_KERNEL
              [] name \in {"conv2d1.bias", "conv2d2.bias", "conv2d3.bias"} -> CONV_HIDDEN
              [] name = "conv_out.weight" -> d * (CONV_HIDDEN * 16)
              [] name \in {"self_attn.q_proj.weight", "self_attn.k_proj.weight",
                           "self_attn.v_proj.weight", "self_attn.out_proj.weight",
                           "proj1.weight"} -> d * d
              [] name \in {"fc1.weight", "fc2.weight"} -> d * cfg.enc_ffn_dim
              [] name = "fc1.bias" -> cfg.enc_ffn_dim
              [] name = "proj2.weight" -> cfg.enc_output_dim * d
              [] name = "proj2.bias" -> cfg.enc_output_dim
              [] OTHER -> d
        ELSE
            CASE name = "embed_tokens.weight" -> cfg.vocab_size * h
              [] name \in {"self_attn.q_proj.weight", "self_attn.o_proj.weight"} -> q * h
              [] name \in {"self_attn.k_proj.weight", "self_attn.v_proj.weight"} -> kv * h
              [] name \in {"self_attn.q_norm.weight", "self_attn.k_norm.weight"}
                    -> cfg.dec_head_dim
              [] name \in {"mlp.gate_proj.weight", "mlp.up_proj.weight",
                           "mlp.down_proj.weight"} -> cfg.dec_intermediate * h
              [] OTHER -> h

\* the hyperparameters the source tensors were made with
SrcDims == get_config(IF src_wide THEN "1.7B" ELSE "0.6B")

\* elements the source holds under `key`
SrcCount(key) ==
    ShapeCount(key, SrcDims) + (IF key \in ragged THEN 16 ELSE 0)
                             + (IF key \in resized THEN 256 ELSE 0)

\* elements an entry hands to its write
EntryCount(e) ==
    IF Len(e.uses) = 2 THEN SrcCount(e.uses[1]) + SrcCount(e.uses[2])
    ELSE SrcCount(e.uses[1])

\* 4-byte words a write of `count` elements puts in the file
PartWords(kind, count) ==
    IF kind = "f32" THEN count
    ELSE IF kind = "bf16" THEN count \div 2
    ELSE (count \div QK8_0) * (BLOCK_Q8_0_SIZE \div 4)

FileWords(file) ==
    IF Len(file.parts) = 0 THEN 0
    ELSE file.parts[Len(file.parts)].start + file.parts[Len(file.parts)].len

\* gate stacked on top of up: np.concatenate([gate, up]).flatten()
FuseRowsStacked(t) == t.gate \o t.up

\* np.empty((2 * R, H)); fused[0::2] = gate; fused[1::2] = up; flatten()
FuseRows(t) ==
    [n \in 1..(2 * t.rows * t.cols) |->
        LET row == (n - 1) \div t.cols
            col == (n - 1) % t.cols
        IN  IF row % 2 = 0 THEN t.gate[(row \div 2) * t.cols + col + 1]
            ELSE t.up[(row \div 2) * t.cols + col + 1]]

\* the first name of entry e that the source lacks
MissingName(e) ==
    IF ~InTensorMap(e.gets[1]) THEN e.gets[1] ELSE e.gets[2]

\* what the step at position cidx does: "ok", or the exception it raises
StepOutcome(e) ==
    IF \E j \in DOMAIN e.gets : ~InTensorMap(e.gets[j]) THEN "KeyError"
    ELSE IF e.kind = "fused_q8_0"
              /\ \E j \in DOMAIN e.uses :
                    SrcCount(e.uses[j]) # ConvertCfg.dec_intermediate * ConvertCfg.dec_hidden
         THEN "ValueError"
    ELSE IF e.kind \in {"q8_0", "fused_q8_0"} /\ EntryCount(e) % QK8_0 # 0
         THEN "AssertionError"
    ELSE "ok"

\* faults a source directory can have: a tensor the layout needs is not
\* there, or a tensor holds more elements than its shape gives
AbsentChoices ==
    { << "enc", -1, "conv2d1.weight" >>,
      << "enc", 0, "fc1.bias" >>,
      << "enc", ENC_LAYERS_SMALL, "self_attn.q_proj.bias" >>,
      << "dec", -1, "embed_tokens.weight" >>,
      << "dec", DEC_LAYERS - 1, "mlp.up_proj.weight" >>,
      << "dec", -1, "norm.weight" >> }

RaggedChoices ==
    { << "enc", -1, "conv2d2.weight" >>,
      << "dec", -1, "embed_tokens.weight" >>,
      << "dec", 0, "mlp.gate_proj.weight" >>,
      << "dec", DEC_LAYERS - 1, "mlp.down_proj.weight" >> }

ResizedChoices ==
    { << "enc", -1, "conv2d1.bias" >>,
      << "enc", 3, "fc1.weight" >>,
      << "dec", -1, "embed_tokens.weight" >>,
      << "dec", 5, "mlp.up_proj.weight" >> }

\* gate and up of [rows, cols], flattened row by row
Toy(rows, cols) ==
    [rows |-> rows, cols |-> cols,
     gate |-> [n \in 1..(rows * cols) |-> n],
     up |-> [n \in 1..(rows * cols) |-> rows * cols + n]]

ToyChoices == { Toy(1, 2), Toy(2, 2), Toy(3, 1), Toy(2, 3) }

\* a complete model of the variant, run with two arguments
Nominal(wide) ==
    [argc |-> 3, has_shards |-> TRUE,
     enc |-> IF wide THEN ENC_LAYERS_LARGE ELSE ENC_LAYERS_SMALL,
     dec |-> DEC_LAYERS, wide |-> wide,
     absent |-> {}, ragged |-> {}, resized |-> {}, toy |-> Toy(1, 2)]

\* the runs tried: a complete model, and one departure from it at a time
Sources ==
    UNION { { Nominal(w) }
            \cup { [Nominal(w) EXCEPT !.argc = n] : n \in {1, 2, 4} }
            \cup { [Nominal(w) EXCEPT !.has_shards = FALSE] }
            \cup { [Nominal(w) EXCEPT !.enc = n] : n \in SrcLayerChoices }
            \cup { [Nominal(w) EXCEPT !.dec = n] : n \in SrcLayerChoices }
            \cup { [Nominal(w) EXCEPT !.absent = {k}] : k \in AbsentChoices }
            \cup { [Nominal(w) EXCEPT !.ragged = {k}] : k \in RaggedChoices }
            \cup { [Nominal(w) EXCEPT !.resized = {k}] : k \in ResizedChoices }
            \cup { [Nominal(w) EXCEPT !.toy = t] : t \in ToyChoices }
          : w \in BOOLEAN }

SourceIs(s) ==
    /\ argc = s.argc
    /\ has_shards = s.has_shards
    /\ src_enc_layers = s.enc
    /\ src_dec_layers = s.dec
    /\ src_wide = s.wide
    /\ absent = s.absent
    /\ ragged = s.ragged
    /\ resized = s.resized
    /\ toy = s.toy

ConvInit ==
    /\ EncIdle
    /\ WriterIdle
    /\ HarnessIdle
    /\ script = "qmodel"
    /\ config = NoConfig
    /\ \E s \in Sources : SourceIs(s)
    /\ cpc = "main"
    /\ raised = NoError
    /\ cidx = 0
    /\ exit_code = -1
    /\ flat_file = NoFlatFile
    /\ added = << >>
    /\ tagged_file = NoTaggedFile

\* main: wrong number of arguments, usage on stderr and sys.exit(1)
FlatUsage ==
    /\ script = "qmodel"
    /\ cpc = "main"
    /\ argc # 3
    /\ cpc' = "done"
    /\ exit_code' = 1
    /\ raised' = Error("SystemExit")
    /\ UNCHANGED << srcVars, cidx, flat_file >>
    /\ UNCHANGED << encVars, wrVars, taggedOut, hvVars >>

\* main: convert(sys.argv[1], sys.argv[2])
FlatConvert ==
    /\ script = "qmodel"
    /\ cpc = "main"
    /\ argc = 3
    /\ cpc' = "start"
    /\ UNCHANGED raised
    /\ UNCHANGED << srcVars, cidx, exit_code, flat_file >>
    /\ UNCHANGED << encVars, wrVars, taggedOut, hvVars >>

\* no *.safetensors file: message on stderr and sys.exit(1)
NoShards ==
    /\ script = "qmodel"
    /\ cpc = "start"
    /\ ~has_shards
    /\ cpc' = "done"
    /\ exit_code' = 1
    /\ raised' = Error("SystemExit")
    /\ UNCHANGED << srcVars, cidx, flat_file >>
    /\ UNCHANGED << encVars, wrVars, taggedOut, hvVars >>

\* shards opened, variant detected; open(output_path, 'wb') creates the file
ConvertOpen ==
    /\ script = "qmodel"
    /\ cpc = "start"
    /\ has_shards
    /\ cpc' = "header"
    /\ flat_file' = [exists |-> TRUE, header |-> << >>, parts |-> << >>]
    /\ UNCHANGED raised
    /\ UNCHANGED << srcVars, cidx, exit_code >>
    /\ UNCHANGED << encVars, wrVars, taggedOut, hvVars >>

\* open(output_path, 'wb') fails: nothing was created
ConvertOpenRaises ==
    /\ script = "qmodel"
    /\ cpc = "start"
    /\ has_shards
    /\ cpc' = "failed"
    /\ exit_code' = 1
    /\ raised' = Error("OSError")
    /\ UNCHANGED << srcVars, cidx, flat_file >>
    /\ UNCHANGED << encVars, wrVars, taggedOut, hvVars >>

\* a header writer that leaves out enc_head_dim
write_header_short ==
    /\ script = "qmodel"
    /\ cpc = "header"
    /\ flat_file' = [flat_file EXCEPT
                        !.header = PackLE(QMODEL_MAGIC, 4) \o PackLE(QMODEL_VERSION, 4)
                                     \o PackLE(ConvertCfg.enc_d_model, 4)
                                     \o PackLE(ConvertCfg.enc_layers, 4)
                                     \o PackLE(ConvertCfg.enc_heads, 4)
                                     \o Zeros(HEADER_SIZE - 20),
                        !.parts = Append(@, [kind |-> "header", uses |-> << >>,
                                             start |-> 0, len |-> HEADER_SIZE \div 4,
                                             fused |-> << >>])]
    /\ cidx' = 1
    /\ cpc' = "emit"
    /\ UNCHANGED raised
    /\ UNCHANGED << srcVars, exit_code >>
    /\ UNCHANGED << encVars, wrVars, taggedOut, hvVars >>

write_header ==
    /\ script = "qmodel"
    /\ cpc = "header"
    /\ Len(FlatHeaderBytes(ConvertCfg)) = HEADER_SIZE
    /\ flat_file' = [flat_file EXCEPT
                        !.header = FlatHeaderBytes(ConvertCfg),
                        !.parts = Append(@, [kind |-> "header", uses |-> << >>,
                                             start |-> 0,
                                             len |-> Len(FlatHeaderBytes(ConvertCfg)) \div 4,
                                             fused |-> << >>])]
    /\ cidx' = 1
    /\ cpc' = "emit"
    /\ UNCHANGED raised
    /\ UNCHANGED << srcVars, exit_code >>
    /\ UNCHANGED << encVars, wrVars, taggedOut, hvVars >>

\* one get_* / write_* pair of convert
EmitTensor ==
    /\ script = "qmodel"
    /\ cpc = "emit"
    /\ cidx <= Len(ConvertOrder)
    /\ StepOutcome(ConvertOrder[cidx]) = "ok"
    /\ LET e == ConvertOrder[cidx]
       IN  flat_file' = [flat_file EXCEPT
                            !.parts = Append(@,
                                [kind |-> e.kind, uses |-> e.uses,
                                 start |-> FileWords(flat_file),
                                 len |-> PartWords(e.kind, EntryCount(e)),
                                 fused |-> IF e.kind = "fused_q8_0"
                                           THEN FuseRows(toy) ELSE << >>])]
    /\ cidx' = cidx + 1
    /\ UNCHANGED raised
    /\ UNCHANGED << srcVars, cpc, exit_code >>
    /\ UNCHANGED << encVars, wrVars, taggedOut, hvVars >>

\* a converter that passes over a tensor it cannot find
EmitSkipsMissing ==
    /\ script = "qmodel"
    /\ cpc = "emit"
    /\ cidx <= Len(ConvertOrder)
    /\ StepOutcome(ConvertOrder[cidx]) # "ok"
    /\ cidx' = cidx + 1
    /\ UNCHANGED << srcVars, cpc, raised, exit_code, flat_file >>
    /\ UNCHANGED << encVars, wrVars, taggedOut, hvVars >>

\* a lookup, reshape or alignment assertion raises inside the with block:
\* the file is closed as it stands and the exception ends the process
EmitRaises ==
    /\ script = "qmodel"
    /\ cpc = "emit"
    /\ cidx <= Len(ConvertOrder)
    /\ StepOutcome(ConvertOrder[cidx]) # "ok"
    /\ cpc' = "failed"
    /\ exit_code' = 1
    /\ raised' = [type |-> StepOutcome(ConvertOrder[cidx]),
                  key |-> IF StepOutcome(ConvertOrder[cidx]) = "KeyError"
                          THEN MissingName(ConvertOrder[cidx]) ELSE << >>]
    /\ UNCHANGED << srcVars, cidx, flat_file >>
    /\ UNCHANGED << encVars, wrVars, taggedOut, hvVars >>

\* f.write raises (disk full, I/O error) in the header or a tensor write
FlatWriteRaises ==
    /\ script = "qmodel"
    /\ cpc \in {"header", "emit"}
    /\ cpc = "emit" => cidx <= Len(ConvertOrder)
                        /\ StepOutcome(ConvertOrder[cidx]) = "ok"
    /\ cpc' = "failed"
    /\ exit_code' = 1
    /\ raised' = Error("OSError")
    /\ UNCHANGED << srcVars, cidx, flat_file >>
    /\ UNCHANGED << encVars, wrVars, taggedOut, hvVars >>

\* the with block ends: file closed, size reported
ConvertDone ==
    /\ script = "qmodel"
    /\ cpc = "emit"
    /\ cidx > Len(ConvertOrder)
    /\ cpc' = "done"
    /\ exit_code' = 0
    /\ UNCHANGED raised
    /\ UNCHANGED << srcVars, cidx, flat_file >>
    /\ UNCHANGED << encVars, wrVars, taggedOut, hvVars >>

ConvNext ==
    \/ FlatUsage \/ FlatConvert
    \/ NoShards \/ ConvertOpen \/ ConvertOpenRaises \/ write_header
    \/ EmitTensor \/ EmitRaises \/ FlatWriteRaises \/ ConvertDone

\* ---------------------------------------------------------------------
\* convert-asr-gguf.py: one run of main
\* ---------------------------------------------------------------------
\* dict.get(key, default)
Get(d, key, default) == IF key \in DOMAIN d THEN d[key] ELSE default

\* main: the section the encoder keys are read from
audio_cfg(c) ==
    IF c.has_thinker /\ c.has_t_audio THEN c.t_audio
    ELSE IF c.has_audio THEN c.audio
    ELSE c.top

\* main: the section the decoder keys are read from
text_cfg(c) ==
    IF c.has_thinker /\ c.has_t_text THEN c.t_text
    ELSE IF c.has_text THEN c.text
    ELSE c.top

\* main: the hyperparameters taken from config.json
Hyper(c) ==
    LET a == audio_cfg(c)
        t == text_cfg(c)
        enc_d_model == Get(a, "d_model", Get(a, "hidden_size", 896))
        enc_heads == Get(a, "encoder_attention_heads", Get(a, "num_attention_heads", 14))
        dec_hidden == Get(t, "hidden_size", 1024)
        dec_heads == Get(t, "num_attention_heads", 16)
    IN  [enc_d_model |-> enc_d_model,
         enc_layers |-> Get(a, "encoder_layers", Get(a, "num_hidden_layers", 18)),
         enc_heads |-> enc_heads,
         enc_head_dim |-> enc_d_model \div enc_heads,
         enc_ffn_dim |-> Get(a, "encoder_ffn_dim", Get(a, "intermediate_size", 3584)),
         enc_output_dim |-> Get(a, "output_dim", 1024),
         dec_hidden |-> dec_hidden,
         dec_layers |-> Get(t, "num_hidden_layers", 28),
         dec_heads |-> dec_heads,
         dec_kv_heads |-> Get(t, "num_key_value_heads", 8),
         dec_head_dim |-> Get(t, "head_dim", dec_hidden \div dec_heads),
         dec_intermediate |-> Get(t, "intermediate_size", 3072),
         vocab_size |-> Get(t, "vocab_size", 151936)]

\* main: variant = "1.7B" if enc_layers > 18 else "0.6B"
TaggedVariant(c) == IF Hyper(c).enc_layers > 18 THEN "1.7B" ELSE "0.6B"

\* one get_tensor_f32 / add_tensor pair of main
TEntry(tower, i, st_name, gguf_name, kind) ==
    [gets |-> << << tower, i, st_name >> >>, uses |-> << << tower, i, st_name >> >>,
     kind |-> kind, name |-> << tower, i, gguf_name >>]

TaggedStem ==
    << TEntry("enc", -1, "conv2d1.weight", "conv1.weight", "F32"),
       TEntry("enc", -1, "conv2d1.bias", "conv1.bias", "F32"),
       TEntry("enc", -1, "conv2d2.weight", "conv2.weight", "F32"),
       TEntry("enc", -1, "conv2d2.bias", "conv2.bias", "F32"),
       TEntry("enc", -1, "conv2d3.weight", "conv3.weight", "F32"),
       TEntry("enc", -1, "conv2d3.bias", "conv3.bias", "F32"),
       TEntry("enc", -1, "conv_out.weight", "conv_out.weight", "Q8_0") >>

TaggedEncLayer(i) ==
    << TEntry("enc", i, "self_attn.q_proj.weight", "attn.q.weight", "Q8_0"),
       TEntry("enc", i, "self_attn.q_proj.bias", "attn.q.bias", "F32"),
       TEntry("enc", i, "self_attn.k_proj.weight", "attn.k.weight", "Q8_0"),
       TEntry("enc", i, "self_attn.k_proj.bias", "attn.k.bias", "F32"),
       TEntry("enc", i, "self_attn.v_proj.weight", "attn.v.weight", "Q8_0"),
       TEntry("enc", i, "self_attn.v_proj.bias", "attn.v.bias", "F32"),
       TEntry("enc", i, "self_attn.out_proj.weight", "attn.o.weight", "Q8_0"),
       TEntry("enc", i, "self_attn.out_proj.bias", "attn.o.bias", "F32"),
       TEntry("enc", i, "self_attn_layer_norm.weight", "attn_norm.weight", "F32"),
       TEntry("enc", i, "self_attn_layer_norm.bias", "attn_norm.bias", "F32"),
       TEntry("enc", i, "fc1.weight", "ffn.fc1.weight", "Q8_0"),
       TEntry("enc", i, "fc1.bias", "ffn.fc1.bias", "F32"),
       TEntry("enc", i, "fc2.weight", "ffn.fc2.weight", "Q8_0"),
       TEntry("enc", i, "fc2.bias", "ffn.fc2.bias", "F32"),
       TEntry("enc", i, "final_layer_norm.weight", "ffn_norm.weight", "F32"),
       TEntry("enc", i, "final_layer_norm.bias", "ffn_norm.bias", "F32") >>

TaggedEncPost ==
    << TEntry("enc", -1, "ln_post.weight", "ln_post.weight", "F32"),
       TEntry("enc", -1, "ln_post.bias", "ln_post.bias", "F32"),
       TEntry("enc", -1, "proj1.weight", "proj1.weight", "Q8_0"),
       TEntry("enc", -1, "proj1.bias", "proj1.bias", "F32"),
       TEntry("enc", -1, "proj2.weight", "proj2.weight", "Q8_0"),
       TEntry("enc", -1, "proj2.bias", "proj2.bias", "F32") >>

\* a table that stores the token embedding once
TaggedTokOnce ==
    << TEntry("dec", -1, "embed_tokens.weight", "tok_emb.f16", "F16") >>

\* the token embedding is looked up once and added twice
TaggedTok ==
    << TEntry("dec", -1, "embed_tokens.weight", "tok_emb.f16", "F16"),
       [gets |-> << >>, uses |-> << << "dec", -1, "embed_tokens.weight" >> >>,
        kind |-> "Q4_K", name |-> << "dec", -1, "tok_emb.q4k" >>] >>

TaggedDecLayer(i) ==
    << TEntry("dec", i, "self_attn.q_proj.weight", "attn.q.weight", "Q4_K"),
       TEntry("dec", i, "self_attn.k_proj.weight", "attn.k.weight", "Q4_K"),
       TEntry("dec", i, "self_attn.v_proj.weight", "attn.v.weight", "Q4_K"),
       TEntry("dec", i, "self_attn.o_proj.weight", "attn.o.weight", "Q4_K"),
       TEntry("dec", i, "self_attn.q_norm.weight", "attn.q_norm.weight", "F32"),
       TEntry("dec", i, "self_attn.k_norm.weight", "attn.k_norm.weight", "F32"),
       TEntry("dec", i, "input_layernorm.weight", "input_norm.weight", "F32"),
       TEntry("dec", i, "post_attention_layernorm.weight", "post_attn_norm.weight", "F32"),
       [gets |-> << << "dec", i, "mlp.gate_proj.weight" >>,
                    << "dec", i, "mlp.up_proj.weight" >> >>,
        uses |-> << << "dec", i, "mlp.gate_proj.weight" >>,
                    << "dec", i, "mlp.up_proj.weight" >> >>,
        kind |-> "fused_Q4_K", name |-> << "dec", i, "mlp.gate_up.weight" >>],
       TEntry("dec", i, "mlp.down_proj.weight", "mlp.down.weight", "Q4_K") >>

\* number of add_tensor calls main makes for these layer counts
TaggedLen(enc_layers, dec_layers) ==
    Len(TaggedStem) + enc_layers * Len(TaggedEncLayer(0)) + Len(TaggedEncPost)
        + Len(TaggedTok) + dec_layers * Len(TaggedDecLayer(0)) + 1

\* the n-th add_tensor call of main (1-based)
TaggedEntryAt(n, enc_layers, dec_layers) ==
    LET per_enc == Len(TaggedEncLayer(0))
        per_dec == Len(TaggedDecLayer(0))
        a == Len(TaggedStem)
        b == a + enc_layers * per_enc
        c == b + Len(TaggedEncPost)
        d == c + Len(TaggedTok)
        e == d + dec_layers * per_dec
    IN  IF n <= a THEN TaggedStem[n]
        ELSE IF n <= b THEN TaggedEncLayer((n - a - 1) \div per_enc)[((n - a - 1) % per_enc) + 1]
        ELSE IF n <= c THEN TaggedEncPost[n - b]
        ELSE IF n <= d THEN TaggedTok[n - c]
        ELSE IF n <= e THEN TaggedDecLayer((n - d - 1) \div per_dec)[((n - d - 1) % per_dec) + 1]
        ELSE TEntry("dec", -1, "norm.weight", "norm.weight", "F32")

\* the add_tensor calls of main, in order
TaggedOrder(enc_layers, dec_layers) ==
    [n \in 1..TaggedLen(enc_layers, dec_layers) |->
        TaggedEntryAt(n, enc_layers, dec_layers)]

TaggedCfg == Hyper(config)

TaggedCalls == TaggedLen(TaggedCfg.enc_layers, TaggedCfg.dec_layers)

TaggedCurrent == TaggedEntryAt(cidx, TaggedCfg.enc_layers, TaggedCfg.dec_layers)

\* elements handed to add_tensor by an entry
TaggedCount(e) ==
    IF e.kind = "fused_Q4_K" THEN 2 * TaggedCfg.dec_intermediate * TaggedCfg.dec_hidden
    ELSE IF e.uses[1][3] = "embed_tokens.weight"
         THEN MinInt(SrcCount(e.uses[1]), TaggedCfg.vocab_size * TaggedCfg.dec_hidden)
    ELSE SrcCount(e.uses[1])

\* the shape add_tensor is given: (len(data),), or (n_embed,) for the embedding
TaggedShape(e) ==
    IF e.uses[1][3] = "embed_tokens.weight"
    THEN TaggedCfg.vocab_size * TaggedCfg.dec_hidden
    ELSE TaggedCount(e)

\* the type constant add_tensor is given
TypeTag(kind) ==
    CASE kind = "F32" -> GGML_TYPE_F32
      [] kind = "F16" -> GGML_TYPE_F16
      [] kind = "Q8_0" -> GGML_TYPE_Q8_0
      [] OTHER -> GGML_TYPE_Q4_K

\* len of the bytes add_tensor is given for `count` elements
TaggedPayloadLen(kind, count) ==
    CASE kind = "F32" -> 4 * count
      [] kind = "F16" -> 2 * count
      [] kind = "Q8_0" -> (count \div QK8_0) * GGUF_Q8_0_RECORD
      [] OTHER -> (count \div QK_K) * Q4_K_RECORD

\* what the step for entry e does: "ok", or the exception it raises
TaggedOutcome(e) ==
    IF \E j \in DOMAIN e.gets : ~InTensorMap(e.gets[j]) THEN "KeyError"
    ELSE IF e.kind = "fused_Q4_K"
              /\ \E j \in DOMAIN e.uses :
                    SrcCount(e.uses[j]) # TaggedCfg.dec_intermediate * TaggedCfg.dec_hidden
         THEN "ValueError"
    ELSE IF e.kind = "Q8_0" /\ TaggedCount(e) % QK8_0 # 0 THEN "AssertionError"
    ELSE IF e.kind = "Q4_K" /\ e.gets = << >>
              /\ (TaggedCfg.vocab_size * TaggedCfg.dec_hidden) % QK_K # 0
         THEN "AssertionError"
    ELSE IF e.kind \in {"Q4_K", "fused_Q4_K"} /\ TaggedCount(e) % QK_K # 0
         THEN "AssertionError"
    ELSE "ok"

\* a config.json with every key in the nested sections
NestedConfig(dims, enc, dec) ==
    [NoConfig EXCEPT
        !.has_thinker = TRUE,
        !.has_t_audio = TRUE,
        !.t_audio = [d_model |-> dims.enc_d_model, encoder_layers |-> enc,
                     encoder_attention_heads |-> dims.enc_heads,
                     encoder_ffn_dim |-> dims.enc_ffn_dim,
                     output_dim |-> dims.enc_output_dim],
        !.has_t_text = TRUE,
        !.t_text = [hidden_size |-> dims.dec_hidden, num_hidden_layers |-> dec,
                    num_attention_heads |-> dims.dec_heads,
                    num_key_value_heads |-> dims.dec_kv_heads,
                    head_dim |-> dims.dec_head_dim,
                    intermediate_size |-> dims.dec_intermediate,
                    vocab_size |-> dims.vocab_size]]

\* other ways of writing the same hyperparameters, and documents that
\* leave keys out of the nested sections
ConfigChoices(dims, enc, dec) ==
    LET n == NestedConfig(dims, enc, dec)
    IN  { n,
          \* sections at the top level, no thinker_config
          [NoConfig EXCEPT !.has_audio = TRUE, !.audio = n.t_audio,
                           !.has_text = TRUE, !.text = n.t_text],
          \* thinker_config without sections, sections at the top level
          [NoConfig EXCEPT !.has_thinker = TRUE,
                           !.has_audio = TRUE, !.audio = n.t_audio,
                           !.has_text = TRUE, !.text = n.t_text],
          \* the encoder keys under their other names
          [n EXCEPT !.t_audio = [hidden_size |-> dims.enc_d_model,
                                 num_hidden_layers |-> enc,
                                 num_attention_heads |-> dims.enc_heads,
                                 intermediate_size |-> dims.enc_ffn_dim,
                                 output_dim |-> dims.enc_output_dim]],
          \* no sections: the decoder keys at the top level
          [NoConfig EXCEPT !.top = n.t_text],
          \* nested audio section without encoder_layers, which the top level has
          [n EXCEPT !.t_audio = [d_model |-> dims.enc_d_model,
                                 encoder_attention_heads |-> dims.enc_heads,
                                 encoder_ffn_dim |-> dims.enc_ffn_dim,
                                 output_dim |-> dims.enc_output_dim],
                    !.top = [encoder_layers |-> enc]],
          \* nested text section without intermediate_size, which the top level has
          [n EXCEPT !.t_text = [hidden_size |-> dims.dec_hidden,
                                num_hidden_layers |-> dec,
                                num_attention_heads |-> dims.dec_heads,
                                num_key_value_heads |-> dims.dec_kv_heads,
                                head_dim |-> dims.dec_head_dim,
                                vocab_size |-> dims.vocab_size],
                    !.top = [intermediate_size |-> dims.dec_intermediate]],
          \* empty sections, nothing at the top level
          [NoConfig EXCEPT !.has_thinker = TRUE, !.has_t_audio = TRUE,
                           !.has_t_text = TRUE],
          \* vocab_size counts rows the embedding tensor does not hold
          [n EXCEPT !.t_text.vocab_size = dims.vocab_size + 64],
          \* an empty document
          NoConfig }

TaggedInit ==
    /\ EncIdle
    /\ WriterIdle
    /\ HarnessIdle
    /\ script = "gguf"
    /\ \E s \in Sources :
        /\ SourceIs(s)
        /\ \E c \in (IF s = Nominal(s.wide)
                     THEN ConfigChoices(SrcDims, s.enc, s.dec)
                     ELSE { NestedConfig(SrcDims, s.enc, s.dec) }) : config = c
    /\ cpc = "main"
    /\ raised = NoError
    /\ cidx = 0
    /\ exit_code = -1
    /\ flat_file = NoFlatFile
    /\ added = << >>
    /\ tagged_file = NoTaggedFile

\* main: fewer than two arguments, usage and sys.exit(1)
TaggedUsage ==
    /\ script = "gguf"
    /\ cpc = "main"
    /\ argc < 3
    /\ cpc' = "done"
    /\ exit_code' = 1
    /\ raised' = Error("SystemExit")
    /\ UNCHANGED << srcVars, cidx, flat_file, taggedOut >>
    /\ UNCHANGED << encVars, wrVars, hvVars >>

\* main: config.json loaded, hyperparameters and variant printed
TaggedLoadConfig ==
    /\ script = "gguf"
    /\ cpc = "main"
    /\ argc >= 3
    /\ cpc' = "start"
    /\ UNCHANGED raised
    /\ UNCHANGED << srcVars, cidx, exit_code, flat_file, taggedOut >>
    /\ UNCHANGED << encVars, wrVars, hvVars >>

\* load_safetensors: no *.safetensors file, FileNotFoundError ends the run
TaggedNoShards ==
    /\ script = "gguf"
    /\ cpc = "start"
    /\ ~has_shards
    /\ cpc' = "failed"
    /\ exit_code' = 1
    /\ raised' = Error("FileNotFoundError")
    /\ UNCHANGED << srcVars, cidx, flat_file, taggedOut >>
    /\ UNCHANGED << encVars, wrVars, hvVars >>

\* main: tensors loaded, writer created, the 14 metadata records added
TaggedLoadShards ==
    /\ script = "gguf"
    /\ cpc = "start"
    /\ has_shards
    /\ cpc' = "emit"
    /\ cidx' = 1
    /\ UNCHANGED raised
    /\ UNCHANGED << srcVars, exit_code, flat_file, taggedOut >>
    /\ UNCHANGED << encVars, wrVars, hvVars >>

\* one get_tensor_f32 / quantize / add_tensor step of main
TaggedAdd ==
    /\ script = "gguf"
    /\ cpc = "emit"
    /\ cidx <= TaggedCalls
    /\ TaggedOutcome(TaggedCurrent) = "ok"
    /\ LET e == TaggedCurrent
       IN  added' = Append(added, [name |-> e.name, kind |-> e.kind, uses |-> e.uses,
                                   count |-> TaggedCount(e),
                                   shape |-> TaggedShape(e),
                                   type |-> TypeTag(e.kind),
                                   len |-> TaggedPayloadLen(e.kind, TaggedCount(e)),
                                   fused |-> IF e.kind = "fused_Q4_K"
                                             THEN FuseRows(toy) ELSE << >>])
    /\ cidx' = cidx + 1
    /\ UNCHANGED raised
    /\ UNCHANGED << srcVars, cpc, exit_code, flat_file, tagged_file >>
    /\ UNCHANGED << encVars, wrVars, hvVars >>

\* a lookup, reshape or divisibility assert raises: the exception ends the
\* run before write() is reached
TaggedAddRaises ==
    /\ script = "gguf"
    /\ cpc = "emit"
    /\ cidx <= TaggedCalls
    /\ TaggedOutcome(TaggedCurrent) # "ok"
    /\ cpc' = "failed"
    /\ exit_code' = 1
    /\ raised' = [type |-> TaggedOutcome(TaggedCurrent),
                  key |-> IF TaggedOutcome(TaggedCurrent) = "KeyError"
                          THEN MissingName(TaggedCurrent) ELSE << >>]
    /\ UNCHANGED << srcVars, cidx, flat_file, taggedOut >>
    /\ UNCHANGED << encVars, wrVars, hvVars >>

\* quantize_f32_to_q4_K raises OverflowError on the tensor's contents
\* (a negative 6-bit value stored into np.uint8 under NumPy >= 2)
TaggedQuantizeRaises ==
    /\ script = "gguf"
    /\ cpc = "emit"
    /\ cidx <= TaggedCalls
    /\ TaggedOutcome(TaggedCurrent) = "ok"
    /\ TaggedCurrent.kind \in {"Q4_K", "fused_Q4_K"}
    /\ cpc' = "failed"
    /\ exit_code' = 1
    /\ raised' = Error("OverflowError")
    /\ UNCHANGED << srcVars, cidx, flat_file, taggedOut >>
    /\ UNCHANGED << encVars, wrVars, hvVars >>

\* main: writer.write(output_path) and the size report
TaggedWrite ==
    /\ script = "gguf"
    /\ cpc = "emit"
    /\ cidx > TaggedCalls
    /\ tagged_file' = [exists |-> TRUE, entries |-> added]
    /\ cpc' = "done"
    /\ exit_code' = 0
    /\ UNCHANGED raised
    /\ UNCHANGED << srcVars, cidx, flat_file, added >>
    /\ UNCHANGED << encVars, wrVars, hvVars >>

\* writer.write raises part-way: the file exists with what was written
TaggedWriteRaises ==
    /\ script = "gguf"
    /\ cpc = "emit"
    /\ cidx > TaggedCalls
    /\ \E n \in {0, Len(added) \div 2} :
        tagged_file' = [exists |-> TRUE, entries |-> SubSeq(added, 1, n)]
    /\ cpc' = "failed"
    /\ exit_code' = 1
    /\ raised' = Error("OSError")
    /\ UNCHANGED << srcVars, cidx, flat_file, added >>
    /\ UNCHANGED << encVars, wrVars, hvVars >>

TaggedNext ==
    \/ TaggedUsage \/ TaggedLoadConfig \/ TaggedNoShards \/ TaggedLoadShards
    \/ TaggedAdd \/ TaggedAddRaises \/ TaggedQuantizeRaises
    \/ TaggedWrite \/ TaggedWriteRaises

\* a run of either converter script
ScriptsInit == GGUFInit \/ ConvInit \/ TaggedInit

ScriptsNext == GGUFNext \/ ConvNext \/ TaggedNext

SpecConv == ScriptsInit /\ [][ScriptsNext]_vars

\* ------------------------------------------------------------------------
\* Reading encoder output back (what a consumer of the bytes sees)
\* ------------------------------------------------------------------------
IsQ8(c) == c \in {"gguf_q8_0", "qmodel_q8_0"}

ScaleBytes(c) == IF c = "gguf_q8_0" THEN 2 ELSE 4

\* record i (0-based) of `size` bytes in a byte string
RecordAt(bytes, i, size) == [k \in 1..size |-> bytes[i * size + k]]

Q8StoredScale(c, rec) ==
    IF c = "gguf_q8_0" THEN UnpackF16(<< rec[1], rec[2] >>)
    ELSE UnpackF32(<< rec[1], rec[2], rec[3], rec[4] >>)

Q8StoredCode(c, rec, l) == ByteInt8(rec[ScaleBytes(c) + l])

Q8RecordSize(c) == ScaleBytes(c) + 32

\* calls of a Q8_0 encoder that returned bytes, as (result, block index) pairs
Q8Returned ==
    {<< r, i >> \in (1..Len(rets)) \X (0..((Len(data_in) \div 32) - 1)) :
        IsQ8(codec) /\ rets[r].status = "ok"}

Q4KReturned ==
    {<< r, i >> \in (1..Len(rets)) \X (0..((Len(data_in) \div 256) - 1)) :
        codec = "q4_K" /\ rets[r].status = "ok"}

\* ------------------------------------------------------------------------
\* C2.  Q4_K: in every encoded super-block the eight quantized sub-scales and
\* the eight quantized sub-mins are integers in 0..63, equal to
\* round(raw * 63 / max) clamped to 0..63 (0 when the max is 0); an aligned
\* input is always encoded.
\* ------------------------------------------------------------------------
C2_SubValuesIn6Bits ==
    \A r \in 1..Len(rets) :
        (codec = "q4_K" /\ Len(data_in) % 256 = 0) =>
            /\ rets[r].status = "ok"
            /\ \A i \in 1..Len(rets[r].blocks) : \A j \in 1..8 :
                LET blk == rets[r].blocks[i]
                    sub == q4k_sub(SliceBlock(data_in, i - 1, 256), j - 1)
                    max_min == SetMax({q4k_sub(SliceBlock(data_in, i - 1, 256), jj - 1).min
                                         : jj \in 1..8})
                IN  /\ blk.q_scales[j] \in 0..63
                    /\ blk.q_mins[j] \in 0..63
                    /\ blk.q_mins[j] =
                         (IF max_min > 0
                          THEN Clip(RoundHalfEven(63 * sub.min, max_min), 0, 63)
                          ELSE 0)

\* ------------------------------------------------------------------------
\* C3.  Q8_0, both codecs: every emitted signed 8-bit code has magnitude at
\* most 127.
\* ------------------------------------------------------------------------
C3_CodesWithin127 ==
    \A p \in Q8Returned : \A l \in 1..32 :
        LET rec == RecordAt(rets[p[1]].bytes, p[2], Q8RecordSize(codec))
        IN  Abs(Q8StoredCode(codec, rec, l)) <= 127

\* ------------------------------------------------------------------------
\* C4.  Q8_0 round trip, both codecs: stored_scale * code_i is within one
\* stored scale of the element it encodes.
\* ------------------------------------------------------------------------
C4_RoundTripWithinScale ==
    \A p \in Q8Returned : \A l \in 1..32 :
        LET rec == RecordAt(rets[p[1]].bytes, p[2], Q8RecordSize(codec))
            scale == Q8StoredScale(codec, rec)
            x == data_in[p[2] * 32 + l]
        IN  Abs(scale * Q8StoredCode(codec, rec, l) - x) <= scale

\* ------------------------------------------------------------------------
\* C6.  Q8_0, both codecs: the stored scale is max|x_i| / 127 rounded to the
\* storage format (no representable value is more than half a grid step
\* away from max|x_i| / 127), and an all-zero block is stored as scale 0
\* with 32 zero codes.
\* ------------------------------------------------------------------------
C6_StoredScale ==
    \A p \in Q8Returned :
        LET rec == RecordAt(rets[p[1]].bytes, p[2], Q8RecordSize(codec))
            scale == Q8StoredScale(codec, rec)
            amax == AbsMax(SliceBlock(data_in, p[2], 32))
            mant == IF codec = "gguf_q8_0" THEN F16_MANT ELSE F32_MANT
        IN  /\ scale >= 0
            /\ 2 * Abs(127 * scale - amax) <= 127 * Quantum(scale, mant)
            /\ amax = 0 => \A k \in 1..Q8RecordSize(codec) : rec[k] = 0

C6_Witness ==
    \E p \in Q8Returned :
        /\ codec = "gguf_q8_0"
        /\ AbsMax(SliceBlock(data_in, p[2], 32)) = 0
        /\ \E q \in Q8Returned :
            /\ AbsMax(SliceBlock(data_in, q[2], 32)) % 127 # 0
            /\ Q8StoredScale(codec, RecordAt(rets[q[1]].bytes, q[2], 34)) > 2048

\* ------------------------------------------------------------------------
\* Q4_K decode of one element from the stored scale, min-scale, 6-bit values
\* and 4-bit code: d * q_scale_j * code - dmin * q_min_j
\* ------------------------------------------------------------------------
Q4KStoredCode(rec, idx) ==
    LET byte == rec[16 + ((idx - 1) \div 2) + 1]
    IN  IF (idx - 1) % 2 = 0 THEN byte % 16 ELSE byte \div 16

Q4KStep(blk, j) == blk.d * blk.q_scales[j]

Q4KOffset(blk, j) == blk.dmin * blk.q_mins[j]

Q4KDecode(blk, rec, idx) ==
    LET j == ((idx - 1) \div 32) + 1
    IN  Q4KStep(blk, j) * Q4KStoredCode(rec, idx) - Q4KOffset(blk, j)

\* distance from t to the interval [0, 15 * sc]
OutOfRange(t, sc) == IF t < 0 THEN -t ELSE IF t > 15 * sc THEN t - 15 * sc ELSE 0

C7_MisalignedRaises ==
    \A r \in 1..Len(rets) :
        LET size == IF codec = "q4_K" THEN 256 ELSE 32
        IN  IF Len(data_in) % size # 0
            THEN /\ rets[r].status = "AssertionError"
                 /\ rets[r].bytes = << >>
                 /\ rets[r].blocks = << >>
            ELSE rets[r].status # "AssertionError"

\* a Q8_0 call and a Q4_K call on an input with a complete leading block
C7_Witness ==
    /\ Len(rets) > 0
    /\ rets[1].status = "AssertionError"
    /\ \/ IsQ8(codec) /\ Len(data_in) = 40
       \/ codec = "q4_K" /\ Len(data_in) = 300

\* ------------------------------------------------------------------------
\* C8.  Block independence and order: the output of n blocks is n records of
\* 34 (tagged Q8_0), 36 (flat Q8_0) or 144 (Q4_K) bytes, and record i is
\* what the encoder returns for block i alone, whatever the other blocks hold.
\* ------------------------------------------------------------------------
C8_RecordsIndependent ==
    \A r \in 1..Len(rets) :
        rets[r].status = "ok" =>
            LET size == IF codec = "q4_K" THEN 256 ELSE 32
                rsize == IF codec = "gguf_q8_0" THEN 34
                         ELSE IF codec = "qmodel_q8_0" THEN 36 ELSE 144
                n == Len(data_in) \div size
            IN  /\ Len(rets[r].bytes) = n * rsize
                /\ \A i \in 0..(n - 1) :
                     RecordAt(rets[r].bytes, i, rsize)
                        = Encode(codec, SliceBlock(data_in, i, size), numpy2).bytes

\* an output of several records whose blocks differ
C8_Witness ==
    /\ Len(rets) > 0
    /\ rets[1].status = "ok"
    /\ codec = "q4_K"
    /\ Len(rets[1].bytes) = 288
    /\ RecordAt(rets[1].bytes, 0, 144) # RecordAt(rets[1].bytes, 1, 144)

C1_NoFileAfterFailure ==
    /\ wpc = "failed" => ~out_file.exists
    /\ cpc = "failed" => ~flat_file.exists

\* the directory offsets, once write has computed them
OffsetsKnown == wpc \in {"infos", "align", "data", "close", "done"}

PayloadLen(i) == Len(tensors[i].data)

\* C10 (as stated): the data-section offsets in the directory are
\* multiples of 32 and strictly increasing in insertion order, and each
\* offset is the previous one plus the previous payload length rounded up
\* to a multiple of 32, zero-length payloads included.
C10_OffsetsStrictlyIncreasing ==
    OffsetsKnown =>
        /\ Len(offsets) = Len(tensors)
        /\ \A i \in 1..Len(offsets) : offsets[i] % GGUF_ALIGNMENT = 0
        /\ \A i \in 1..(Len(offsets) - 1) :
              /\ offsets[i] < offsets[i + 1]
              /\ offsets[i + 1]
                    = offsets[i] + GGUF_ALIGNMENT
                        * ((PayloadLen(i) + GGUF_ALIGNMENT - 1) \div GGUF_ALIGNMENT)

\* C10 (amended): the offsets are multiples of 32 and never decrease in
\* insertion order; each offset is the previous one plus the previous
\* payload length rounded up to a multiple of 32, so an offset exceeds
\* its predecessor exactly when the predecessor's payload is non-empty and
\* a zero-length payload shares its offset with the tensor after it.
C10_OffsetsAlignedNonDecreasing ==
    OffsetsKnown =>
        /\ Len(offsets) = Len(tensors)
        /\ Len(offsets) > 0 => offsets[1] = 0
        /\ \A i \in 1..Len(offsets) : offsets[i] % GGUF_ALIGNMENT = 0
        /\ \A i \in 1..(Len(offsets) - 1) :
              /\ offsets[i] <= offsets[i + 1]
              /\ (offsets[i] < offsets[i + 1]) <=> (PayloadLen(i) > 0)
              /\ offsets[i + 1]
                    = offsets[i] + GGUF_ALIGNMENT
                        * ((PayloadLen(i) + GGUF_ALIGNMENT - 1) \div GGUF_ALIGNMENT)

\* a finished file whose directory holds an empty payload between two
\* non-empty ones, one of them not a multiple of 32 bytes long
C10_Witness ==
    /\ wpc = "done"
    /\ Len(tensors) >= 3
    /\ PayloadLen(1) % GGUF_ALIGNMENT # 0
    /\ PayloadLen(2) = 0
    /\ PayloadLen(3) > 0
    /\ offsets[2] = offsets[3]
    /\ offsets[1] < offsets[2]

\* bytes of the header and of all metadata records
MetaLen ==
    LET RECURSIVE KVLen(_)
        KVLen(k) == IF k = 0 THEN 0 ELSE KVLen(k - 1) + Len(KVBytes(kv_pairs[k]))
    IN  Len(HeaderBytes(Len(tensors), Len(kv_pairs))) + KVLen(Len(kv_pairs))

\* C11 (as stated): write computes all tensor offsets in one pass that is
\* over before the first byte is written to the output file.
C11_OffsetsBeforeFirstByte ==
    Len(out_file.bytes) > 0 => OffsetsKnown

\* C11 (amended): write computes all tensor offsets in one pass, during
\* which nothing is written; when the pass runs the file holds exactly the
\* header and the metadata records, and every byte after them (directory,
\* padding, payloads) is written with the complete offsets list in hand,
\* which no later step changes.
C11_OffsetsBeforeDirectory ==
    [][/\ offsets' # offsets =>
            /\ wpc = "offsets"
            /\ offsets = << >>
            /\ Len(offsets') = Len(tensors)
            /\ out_file' = out_file
       /\ wpc = "offsets" => Len(out_file.bytes) = MetaLen /\ out_file' = out_file
       /\ (out_file'.bytes # out_file.bytes /\ Len(out_file.bytes) >= MetaLen) =>
            /\ OffsetsKnown
            /\ Len(offsets) = Len(tensors)
            /\ offsets' = offsets]_vars

\* the directory is being written, metadata and several tensors present
C11_Witness ==
    /\ wpc = "infos"
    /\ widx = 1
    /\ Len(kv_pairs) >= 1
    /\ Len(tensors) >= 2
    /\ Len(offsets) = Len(tensors)
    /\ Len(out_file.bytes) > MetaLen

\* ---- reading a written file back
\* little-endian integer in the k bytes after position pos
RECURSIVE ReadLE(_, _, _)
ReadLE(bytes, pos, k) ==
    IF k = 0 THEN 0 ELSE bytes[pos + 1] + 256 * ReadLE(bytes, pos + 1, k - 1)

ReadBytes(bytes, pos, n) == [i \in 1..n |-> bytes[pos + i]]

\* n metadata records from position pos on: the records and the end position
RECURSIVE ReadKVs(_, _, _, _)
ReadKVs(bytes, pos, n, acc) ==
    IF n = 0 THEN [pos |-> pos, items |-> acc]
    ELSE LET klen == ReadLE(bytes, pos, 8)
             key == ReadBytes(bytes, pos + 8, klen)
             type == ReadLE(bytes, pos + 8 + klen, 4)
             vpos == pos + 8 + klen + 4
             vlen == IF type = GGUF_VAL_STRING THEN 8 + ReadLE(bytes, vpos, 8) ELSE 4
         IN  ReadKVs(bytes, vpos + vlen, n - 1,
                     Append(acc, [key |-> key, type |-> type,
                                  val_bytes |-> ReadBytes(bytes, vpos, vlen)]))

\* n directory entries from position pos on
RECURSIVE ReadInfos(_, _, _, _)
ReadInfos(bytes, pos, n, acc) ==
    IF n = 0 THEN [pos |-> pos, items |-> acc]
    ELSE LET nlen == ReadLE(bytes, pos, 8)
             name == ReadBytes(bytes, pos + 8, nlen)
             ndim == ReadLE(bytes, pos + 8 + nlen, 4)
             dpos == pos + 8 + nlen + 4
             shape == [d \in 1..ndim |-> ReadLE(bytes, dpos + 8 * (d - 1), 8)]
             tpos == dpos + 8 * ndim
         IN  ReadInfos(bytes, tpos + 4 + 8, n - 1,
                       Append(acc, [name |-> name, ndim |-> ndim, shape |-> shape,
                                    type |-> ReadLE(bytes, tpos, 4),
                                    offset |-> ReadLE(bytes, tpos + 4, 8)]))

\* C12: after any sequence of add_u32 / add_string / add_tensor calls and
\* write, the file starts with the magic and version 3; its tensor count is
\* the number of directory entries and payloads in the file and its metadata
\* count the number of metadata records; the records, the directory entries
\* and the payloads are those of the add calls, in the order of the calls,
\* and the file holds nothing after the last payload.
C12_HeaderCountsAndOrder ==
    wpc = "done" =>
        LET bytes == out_file.bytes
            n_tensors == ReadLE(bytes, 8, 8)
            n_kv == ReadLE(bytes, 16, 8)
        IN  /\ ReadLE(bytes, 0, 4) = GGUF_MAGIC
            /\ ReadLE(bytes, 4, 4) = GGUF_VERSION
            /\ n_tensors = Len(tensors)
            /\ n_kv = Len(kv_pairs)
            /\ LET kvs == ReadKVs(bytes, 24, n_kv, << >>)
                   infos == ReadInfos(bytes, kvs.pos, n_tensors, << >>)
                   start == AlignUp(infos.pos)
               IN  /\ kvs.items = kv_pairs
                   /\ \A i \in 1..n_tensors :
                        /\ infos.items[i].name = tensors[i].name
                        /\ infos.items[i].ndim = tensors[i].ndim
                        /\ infos.items[i].shape = tensors[i].shape
                        /\ infos.items[i].type = tensors[i].type
                        /\ start + infos.items[i].offset + Len(tensors[i].data) <= Len(bytes)
                        /\ ReadBytes(bytes, start + infos.items[i].offset,
                                     Len(tensors[i].data)) = tensors[i].data
                   /\ Len(bytes) = IF n_tensors = 0 THEN start
                                   ELSE start + infos.items[n_tensors].offset
                                            + Len(tensors[n_tensors].data)

\* a written file with two metadata records of different kinds and
\* several payloads of different lengths
C12_Witness ==
    /\ wpc = "done"
    /\ Len(kv_pairs) = 2
    /\ kv_pairs[1].type # kv_pairs[2].type
    /\ Len(tensors) >= 3
    /\ Len(tensors[1].data) # Len(tensors[2].data)
    /\ Len(tensors[2].data) # Len(tensors[3].data)

\* ---------------------------------------------------------------------
\* The flat file
\* ---------------------------------------------------------------------
\* the 13 hyperparameters a reader takes from a flat header
HeaderCfg(bytes) ==
    [enc_d_model |-> ReadLE(bytes, 8, 4), enc_layers |-> ReadLE(bytes, 12, 4),
     enc_heads |-> ReadLE(bytes, 16, 4), enc_head_dim |-> ReadLE(bytes, 20, 4),
     enc_ffn_dim |-> ReadLE(bytes, 24, 4), enc_output_dim |-> ReadLE(bytes, 28, 4),
     dec_hidden |-> ReadLE(bytes, 32, 4), dec_layers |-> ReadLE(bytes, 36, 4),
     dec_heads |-> ReadLE(bytes, 40, 4), dec_kv_heads |-> ReadLE(bytes, 44, 4),
     dec_head_dim |-> ReadLE(bytes, 48, 4), dec_intermediate |-> ReadLE(bytes, 52, 4),
     vocab_size |-> ReadLE(bytes, 56, 4)]

\* words the entries of a stretch of the table take under cfg
RECURSIVE ShapeWords(_, _, _)
ShapeWords(entries, n, cfg) ==
    IF n = 0 THEN 0
    ELSE ShapeWords(entries, n - 1, cfg)
            + PartWords(entries[n].kind,
                        IF Len(entries[n].uses) = 2
                        THEN ShapeCount(entries[n].uses[1], cfg)
                                + ShapeCount(entries[n].uses[2], cfg)
                        ELSE ShapeCount(entries[n].uses[1], cfg))

\* words of the whole table under cfg; every layer of a tower has one size
TableWords(cfg) ==
    ShapeWords(ConvStem, Len(ConvStem), cfg)
        + cfg.enc_layers * ShapeWords(EncLayer(0), Len(EncLayer(0)), cfg)
        + ShapeWords(EncPost, Len(EncPost), cfg)
        + ShapeWords(TokEmbeddings, Len(TokEmbeddings), cfg)
        + cfg.dec_layers * ShapeWords(DecLayer(0), Len(DecLayer(0)), cfg)
        + ShapeCount(<< "dec", -1, "norm.weight" >>, cfg)

FlatSucceeded == script = "qmodel" /\ cpc = "done" /\ exit_code = 0

\* C13: on a successful run the flat file is exactly 128 bytes plus the sum,
\* over the emission table of the detected variant, of each entry's length
\* computed from the hyperparameters written in the header (4 bytes per f32
\* element, 2 per raw bf16 element, 36 per 32 elements of Q8_0).
C13_LengthFromHeader ==
    FlatSucceeded =>
        FileWords(flat_file)
            = (HEADER_SIZE \div 4) + TableWords(HeaderCfg(flat_file.header))

\* C14: write_header emits exactly 128 bytes: magic, version, then the 13
\* hyperparameters as little-endian 32-bit integers in the order
\* enc_d_model, enc_layers, enc_heads, enc_head_dim, enc_ffn_dim,
\* enc_output_dim, dec_hidden, dec_layers, dec_heads, dec_kv_heads,
\* dec_head_dim, dec_intermediate, vocab_size, all other bytes zero; the
\* first payload starts at byte 128 and each payload starts where the one
\* before it ends.
C14_HeaderLayout ==
    (script = "qmodel" /\ Len(flat_file.parts) > 0) =>
        LET bytes == flat_file.header
            cfg == ConvertCfg
            parts == flat_file.parts
        IN  /\ Len(bytes) = 128
            /\ ReadLE(bytes, 0, 4) = QMODEL_MAGIC
            /\ ReadLE(bytes, 4, 4) = QMODEL_VERSION
            /\ << ReadLE(bytes, 8, 4), ReadLE(bytes, 12, 4), ReadLE(bytes, 16, 4),
                  ReadLE(bytes, 20, 4), ReadLE(bytes, 24, 4), ReadLE(bytes, 28, 4),
                  ReadLE(bytes, 32, 4), ReadLE(bytes, 36, 4), ReadLE(bytes, 40, 4),
                  ReadLE(bytes, 44, 4), ReadLE(bytes, 48, 4), ReadLE(bytes, 52, 4),
                  ReadLE(bytes, 56, 4) >>
               = << cfg.enc_d_model, cfg.enc_layers, cfg.enc_heads, cfg.enc_head_dim,
                    cfg.enc_ffn_dim, cfg.enc_output_dim, cfg.dec_hidden,
                    cfg.dec_layers, cfg.dec_heads, cfg.dec_kv_heads,
                    cfg.dec_head_dim, cfg.dec_intermediate, cfg.vocab_size >>
            /\ \A k \in 61..128 : bytes[k] = 0
            /\ parts[1].kind = "header" /\ parts[1].start = 0
            /\ Len(parts) > 1 => parts[2].start * 4 = 128
            /\ \A k \in 2..Len(parts) :
                    /\ parts[k].kind # "header"
                    /\ parts[k].start = parts[k - 1].start + parts[k - 1].len

\* a finished 1.7B file
C14_Witness ==
    /\ FlatSucceeded
    /\ ConvertCfg.enc_layers = ENC_LAYERS_LARGE
    /\ ReadLE(flat_file.header, 52, 4) = 6144
    /\ Len(flat_file.parts) = Len(OrderLarge) + 1


\* the source tensors behind each entry of a sequence, in order
Roles(entries) == [n \in DOMAIN entries |-> entries[n].uses]

ShippedModelsAgree ==
    /\ Roles(OrderSmall) = Roles(TaggedOrder(ENC_LAYERS_SMALL, DEC_LAYERS))
    /\ Roles(OrderLarge) = Roles(TaggedOrder(ENC_LAYERS_LARGE, DEC_LAYERS))

\* the model has the encoder depth of neither supported variant
UnknownVariant == src_enc_layers \notin {ENC_LAYERS_SMALL, ENC_LAYERS_LARGE}

\* C16: when the model's encoder layer count is neither 18 nor 24, a run of
\* either converter emits no tensor and does not end in success.
C16_UnknownVariantFailsFast ==
    (script \in {"qmodel", "gguf"} /\ UnknownVariant)
        => /\ flat_file.parts = << >>
           /\ added = << >>
           /\ ~(cpc = "done" /\ exit_code = 0)

\* the step about to run looks up a name the source lacks
MissingHere ==
    /\ cpc = "emit"
    /\ \/ /\ script = "qmodel"
          /\ cidx <= Len(ConvertOrder)
          /\ \E j \in DOMAIN ConvertOrder[cidx].gets : ~InTensorMap(ConvertOrder[cidx].gets[j])
       \/ /\ script = "gguf"
          /\ cidx <= TaggedCalls
          /\ \E j \in DOMAIN TaggedCurrent.gets : ~InTensorMap(TaggedCurrent.gets[j])

\* the entry the run is at
CurrentEntry == IF script = "qmodel" THEN ConvertOrder[cidx] ELSE TaggedCurrent

\* C17: when the entry a converter is at needs a tensor the source lacks, the
\* only step the run takes is to stop there with a KeyError carrying that name
\* and exit status 1, with nothing more emitted; a stopped run takes no
\* further step, so no later entry is read, quantized or emitted.
C17_MissingTensorAborts ==
    [][ /\ cpc # "failed"
        /\ MissingHere =>
            /\ cpc' = "failed"
            /\ raised' = [type |-> "KeyError", key |-> MissingName(CurrentEntry)]
            /\ exit_code' = 1
            /\ cidx' = cidx
            /\ flat_file' = flat_file
            /\ added' = added
            /\ tagged_file' = tagged_file ]_vars

C17_Witness ==
    /\ script = "gguf"
    /\ cpc = "failed"
    /\ raised.type = "KeyError"
    /\ raised.key \in absent
    /\ exit_code = 1
    /\ cidx > 1
    /\ Len(added) = cidx - 1
    /\ ~tagged_file.exists

\* C18: a run of either converter with an argument count other than two
\* (len(sys.argv) other than 3) ends as a usage error with status 1 before the
\* model is read or any output exists; a run on a directory without shard
\* files ends with status 1; a run that completes ends with status 0.
C18_ExactlyTwoArguments ==
    script \in {"qmodel", "gguf"} =>
        /\ (argc # 3 /\ cpc # "main")
            => /\ cpc = "done"
               /\ raised = Error("SystemExit")
               /\ exit_code = 1
               /\ cidx = 0
               /\ ~flat_file.exists
               /\ ~tagged_file.exists
        /\ (argc = 3 /\ ~has_shards /\ cpc \in {"done", "failed"}) => exit_code = 1
        /\ (cpc = "done" /\ raised = NoError) => exit_code = 0

\* hyperparameter and the key it is first looked up under, per section
AudioKeys ==
    { << "enc_d_model", "d_model" >>, << "enc_layers", "encoder_layers" >>,
      << "enc_heads", "encoder_attention_heads" >>,
      << "enc_ffn_dim", "encoder_ffn_dim" >>, << "enc_output_dim", "output_dim" >> }

TextKeys ==
    { << "dec_hidden", "hidden_size" >>, << "dec_layers", "num_hidden_layers" >>,
      << "dec_heads", "num_attention_heads" >>,
      << "dec_kv_heads", "num_key_value_heads" >>, << "dec_head_dim", "head_dim" >>,
      << "dec_intermediate", "intermediate_size" >>, << "vocab_size", "vocab_size" >> }

\* C19: in a run of the tagged converter, when the nested section of
\* config.json exists but lacks a hyperparameter's key and the top level of
\* the document defines that key, the hyperparameter takes the top-level value.
C19_TopLevelBeforeDefault ==
    (script = "gguf" /\ cpc # "main") =>
        /\ \A p \in AudioKeys :
            (config.has_thinker /\ config.has_t_audio
                /\ p[2] \notin DOMAIN config.t_audio /\ p[2] \in DOMAIN config.top)
            => TaggedCfg[p[1]] = config.top[p[2]]
        /\ \A p \in TextKeys :
            (config.has_thinker /\ config.has_t_text
                /\ p[2] \notin DOMAIN config.t_text /\ p[2] \in DOMAIN config.top)
            => TaggedCfg[p[1]] = config.top[p[2]]

\* f is the row-interleaving of the run's gate and up matrices
Interleaved(f) ==
    /\ Len(f) = 2 * toy.rows * toy.cols
    /\ \A r \in 0..(toy.rows - 1) : \A c \in 1..toy.cols :
        /\ f[(2 * r) * toy.cols + c] = toy.gate[r * toy.cols + c]
        /\ f[(2 * r + 1) * toy.cols + c] = toy.up[r * toy.cols + c]

\* an emitted entry that carries a gate or an up projection carries both of
\* one layer, gate first, as one interleaved matrix
FusedEntryOK(e) ==
    (\E j \in DOMAIN e.uses : e.uses[j][3] \in {"mlp.gate_proj.weight", "mlp.up_proj.weight"})
        => /\ Len(e.uses) = 2
           /\ e.uses[1][3] = "mlp.gate_proj.weight"
           /\ e.uses[2] = << "dec", e.uses[1][2], "mlp.up_proj.weight" >>
           /\ Interleaved(e.fused)

\* C20: in both converters the gate and up projections of a decoder layer are
\* emitted only as one matrix of 2*R rows with fused[2r] = gate[r] and
\* fused[2r+1] = up[r]: this holds of the entry just emitted in every state
\* (entries are only appended) and of every entry once the run has ended.
C20_GateUpInterleaved ==
    /\ Len(flat_file.parts) > 0 => FusedEntryOK(flat_file.parts[Len(flat_file.parts)])
    /\ Len(added) > 0 => FusedEntryOK(added[Len(added)])
    /\ cpc \in {"done", "failed"} =>
        /\ \A n \in DOMAIN flat_file.parts : FusedEntryOK(flat_file.parts[n])
        /\ \A n \in DOMAIN added : FusedEntryOK(added[n])
        /\ \A n \in DOMAIN tagged_file.entries : FusedEntryOK(tagged_file.entries[n])

C20_Witness ==
    /\ script = "gguf"
    /\ cpc = "done"
    /\ exit_code = 0
    /\ toy = Toy(2, 3)
    /\ \E n \in DOMAIN tagged_file.entries :
        /\ tagged_file.entries[n].name = << "dec", 0, "mlp.gate_up.weight" >>
        /\ tagged_file.entries[n].fused = << 1, 2, 3, 7, 8, 9, 4, 5, 6, 10, 11, 12 >>

\* source names of the encoder's and the decoder's linear weights
EncLinear ==
    { "conv_out.weight", "self_attn.q_proj.weight", "self_attn.k_proj.weight",
      "self_attn.v_proj.weight", "self_attn.out_proj.weight", "fc1.weight",
      "fc2.weight", "proj1.weight", "proj2.weight" }

DecLinear ==
    { "self_attn.q_proj.weight", "self_attn.k_proj.weight", "self_attn.v_proj.weight",
      "self_attn.o_proj.weight", "mlp.gate_proj.weight", "mlp.up_proj.weight",
      "mlp.down_proj.weight" }

\* entry n of a directory has the storage kind its role calls for
KindOK(dir, n) ==
    LET e == dir[n]
        key == e.uses[1]
    IN  IF key[3] = "embed_tokens.weight" THEN
            \/ /\ e.type = GGML_TYPE_F16
               /\ n < Len(dir) => /\ dir[n + 1].type = GGML_TYPE_Q4_K
                                  /\ dir[n + 1].uses = e.uses
            \/ /\ e.type = GGML_TYPE_Q4_K
               /\ n > 1
               /\ dir[n - 1].type = GGML_TYPE_F16
               /\ dir[n - 1].uses = e.uses
        ELSE IF key[1] = "enc" /\ key[3] \in EncLinear THEN
            e.type = GGML_TYPE_Q8_0 /\ e.len = (e.shape \div 32) * 34
        ELSE IF key[1] = "dec" /\ key[3] \in DecLinear THEN
            e.type = GGML_TYPE_Q4_K /\ e.len = (e.shape \div 256) * 144
        ELSE e.type = GGML_TYPE_F32

\* C21: in the tagged converter every encoder linear weight is added as Q8_0
\* with 34 bytes per 32 elements, every decoder linear weight as Q4_K with 144
\* bytes per 256 elements, conv weights, norms and biases as F32, and the
\* token embedding as an F16 entry followed at once by a Q4_K entry made from
\* the same source tensor: of the entry just added in every state, of every
\* entry of the file once the run has written it.
C21_StorageKindPerRole ==
    script = "gguf" =>
        /\ Len(added) > 0 => KindOK(added, Len(added))
        /\ tagged_file.exists =>
            \A n \in DOMAIN tagged_file.entries : KindOK(tagged_file.entries, n)
        /\ (cpc = "done" /\ exit_code = 0) =>
            \E n \in DOMAIN tagged_file.entries :
                tagged_file.entries[n].uses[1][3] = "embed_tokens.weight"

C21_Witness ==
    /\ script = "gguf"
    /\ cpc = "done"
    /\ exit_code = 0
    /\ TaggedCfg.enc_layers = ENC_LAYERS_LARGE
    /\ \E n \in DOMAIN tagged_file.entries :
        /\ tagged_file.entries[n].name = << "dec", -1, "tok_emb.f16" >>
        /\ tagged_file.entries[n + 1].name = << "dec", -1, "tok_emb.q4k" >>
        /\ tagged_file.entries[n + 2].type = GGML_TYPE_Q4_K
        /\ tagged_file.entries[n - 1].type = GGML_TYPE_F32
        /\ tagged_file.entries[n - 2].type = GGML_TYPE_Q8_0

\* bytes that n elements of a type take
EncodedSize(type, n) ==
    CASE type = GGML_TYPE_F32 -> 4 * n
      [] type = GGML_TYPE_F16 -> 2 * n
      [] type = GGML_TYPE_Q8_0 -> (34 * n) \div 32
      [] OTHER -> (144 * (n \div 256))

\* C24: every entry the tagged converter adds has a payload of exactly the
\* encoded size of its declared element count for its type tag, the two
\* token-embedding entries included, whatever the source tensors hold.
C24_PayloadMatchesShape ==
    script = "gguf" =>
        /\ Len(added) > 0 =>
            added[Len(added)].len
                = EncodedSize(added[Len(added)].type, added[Len(added)].shape)
        /\ tagged_file.exists =>
            \A n \in DOMAIN tagged_file.entries :
                tagged_file.entries[n].len
                    = EncodedSize(tagged_file.entries[n].type, tagged_file.entries[n].shape)

\* tensors whose payload write() has finished writing
PayloadsWritten ==
    IF wpc = "data" THEN widx
    ELSE IF wpc \in {"close", "done"} THEN Len(tensors)
    ELSE 0

\* C25: in write() the data section starts at a multiple of 32; the file
\* position before a payload is written is at most data_start + offsets[idx];
\* every payload written lies exactly at data_start + offsets[idx]; a payload
\* ends no later than the next begins; and every byte between payloads is zero.
C25_PayloadPlacement ==
    wpc \in {"data", "close", "done"} =>
        /\ data_start % GGUF_ALIGNMENT = 0
        /\ data_start <= Len(out_file.bytes)
        /\ wpc = "data" => Len(out_file.bytes) <= data_start + offsets[widx + 1]
        /\ \A i \in 1..PayloadsWritten :
            /\ data_start + offsets[i] + PayloadLen(i) <= Len(out_file.bytes)
            /\ \A k \in 1..PayloadLen(i) :
                out_file.bytes[data_start + offsets[i] + k] = tensors[i].data[k]
            /\ i < PayloadsWritten =>
                /\ offsets[i] + PayloadLen(i) <= offsets[i + 1]
                /\ \A g \in (offsets[i] + PayloadLen(i) + 1)..offsets[i + 1] :
                    out_file.bytes[data_start + g] = 0
        /\ wpc \in {"close", "done"} /\ Len(tensors) > 0 =>
            Len(out_file.bytes)
                = data_start + offsets[Len(tensors)] + PayloadLen(Len(tensors))

\* a finished file with a 5-byte payload followed by 27 zero bytes and a
\* second payload
C25_Witness ==
    /\ wpc = "done"
    /\ Len(tensors) >= 2
    /\ PayloadLen(1) = 5
    /\ PayloadLen(2) > 0
    /\ offsets[2] = GGUF_ALIGNMENT
    /\ out_file.bytes[data_start + 6] = 0
    /\ out_file.bytes[data_start + GGUF_ALIGNMENT + 1] # 0
    /\ MetaLen % GGUF_ALIGNMENT # 0

\* C22: in every Q4_K super-block returned, every 4-bit code is in 0..15, is
\* 0 throughout a sub-block whose effective scale d * q_scale_j is not
\* positive, and byte k of the 128-byte code area holds element 2k in its low
\* nibble and element 2k+1 in its high nibble.  Stated of the result of the
\* latest call; earlier results were the latest in an earlier state.
C22_CodePacking ==
    \A p \in {q \in Q4KReturned : q[1] = Len(rets)} :
        LET blk == rets[p[1]].blocks[p[2] + 1]
            rec == RecordAt(rets[p[1]].bytes, p[2], Q4_K_RECORD)
        IN  /\ \A idx \in 1..QK_K :
                /\ blk.codes[idx] \in 0..15
                /\ Q4KStep(blk, ((idx - 1) \div 32) + 1) <= 0 => blk.codes[idx] = 0
            /\ \A k \in 0..((QK_K \div 2) - 1) :
                /\ rec[16 + k + 1] % 16 = blk.codes[2 * k + 1]
                /\ rec[16 + k + 1] \div 16 = blk.codes[2 * k + 2]
                /\ rec[16 + k + 1] \in 0..255

\* a super-block with an all-zero sub-block next to one that uses both ends
\* of the code range, and a code byte whose two nibbles differ
C22_Witness ==
    \E p \in Q4KReturned :
        LET blk == rets[p[1]].blocks[p[2] + 1]
            rec == RecordAt(rets[p[1]].bytes, p[2], Q4_K_RECORD)
        IN  /\ \E j \in 1..8 : Q4KStep(blk, j) = 0
            /\ \E j \in 1..8 : Q4KStep(blk, j) > 0
            /\ \E idx \in 1..QK_K : blk.codes[idx] = 15
            /\ \E k \in 0..((QK_K \div 2) - 1) :
                rec[16 + k + 1] % 16 # rec[16 + k + 1] \div 16

\* the 12 packed bytes when value i (0-based) of the scales, or of the mins,
\* is replaced by v
PackedWithScale(blk, i, v) ==
    q4k_pack_scales([blk.q_scales EXCEPT ![i + 1] = v], blk.q_mins)

PackedWithMin(blk, i, v) ==
    q4k_pack_scales(blk.q_scales, [blk.q_mins EXCEPT ![i + 1] = v])

\* C23: in the 12 packed bytes of every super-block, byte j for j in 0..3 is
\* a function of q_scale_j and q_min_j only: replacing any other sub-scale or
\* sub-min by another 6-bit value leaves byte j as it is.
C23_FirstBytesPerSubBlock ==
    \A p \in Q4KReturned :
        LET blk == rets[p[1]].blocks[p[2] + 1]
            packed == q4k_pack_scales(blk.q_scales, blk.q_mins)
        IN  \A j \in 0..3 : \A i \in (0..7) \ {j} : \A v \in {0, 21, 63} :
                /\ PackedWithScale(blk, i, v)[j + 1] = packed[j + 1]
                /\ PackedWithMin(blk, i, v)[j + 1] = packed[j + 1]

\* A reader of the 12 packed bytes that undoes the placement the encoder
\* uses: each 3-byte group is a little-endian 24-bit word holding
\* q_scale[2g], q_min[2g], q_scale[2g+1], q_min[2g+1] in 6 bits each.
GroupWord(packed, g) ==
    packed[3 * g + 1] + 256 * packed[3 * g + 2] + 65536 * packed[3 * g + 3]

ReadSubScale(packed, j) ==
    (GroupWord(packed, j \div 2) \div (IF j % 2 = 0 THEN 1 ELSE 4096)) % 64

ReadSubMin(packed, j) ==
    (GroupWord(packed, j \div 2) \div (IF j % 2 = 0 THEN 64 ELSE 262144)) % 64

\* bytes 4..15 of a 144-byte record
PackedField(rec) == [k \in 1..12 |-> rec[4 + k]]

\* C26: for every super-block returned and every sub-block j, the sub-scale
\* and sub-min a reader recovers from the 12 packed bytes are the integers
\* q_scales[j] and q_mins[j] the encoder multiplied by d and dmin when it
\* computed that sub-block's codes.
C26_ReaderRecoversSubValues ==
    \A p \in Q4KReturned :
        LET blk == rets[p[1]].blocks[p[2] + 1]
            packed == PackedField(RecordAt(rets[p[1]].bytes, p[2], Q4_K_RECORD))
        IN  \A j \in 0..7 :
                /\ ReadSubScale(packed, j) = blk.q_scales[j + 1]
                /\ ReadSubMin(packed, j) = blk.q_mins[j + 1]

\* the reader does recover them whenever both arrays hold 6-bit values
ReaderRecoversSixBitValues ==
    \A p \in Q4KReturned :
        LET blk == rets[p[1]].blocks[p[2] + 1]
            packed == PackedField(RecordAt(rets[p[1]].bytes, p[2], Q4_K_RECORD))
        IN  (\A j \in 1..8 : blk.q_scales[j] <= 63 /\ blk.q_mins[j] <= 63)
                => \A j \in 0..7 :
                    /\ ReadSubScale(packed, j) = blk.q_scales[j + 1]
                    /\ ReadSubMin(packed, j) = blk.q_mins[j + 1]

\* the sub-scales and sub-mins of a super-block are 6-bit values
SixBit(blk) == \A j \in 1..8 : blk.q_scales[j] \in 0..63 /\ blk.q_mins[j] \in 0..63

\* 6-bit values that between them set and clear every bit: none, the even
\* bits, the odd bits, all
BitProbes == {0, 21, 42, 63}

\* all sixteen values read back from 12 packed bytes
ReadAll(packed) ==
    [q_scales |-> [j \in 1..8 |-> ReadSubScale(packed, j - 1)],
     q_mins |-> [j \in 1..8 |-> ReadSubMin(packed, j - 1)]]

\* C27: the packing of sixteen 6-bit values into 12 bytes loses nothing: for
\* every super-block encoded with 6-bit values, and for that block with any
\* one value replaced by any probe value, the sixteen values are read back
\* from the bytes exactly, and replacing a value by a different one changes
\* the bytes.  Stated of the result of the latest call; earlier results were
\* the latest in an earlier state.
C27_PackingLossless ==
    \A p \in {q \in Q4KReturned : q[1] = Len(rets)} :
        LET blk == rets[p[1]].blocks[p[2] + 1]
            packed == q4k_pack_scales(blk.q_scales, blk.q_mins)
        IN  SixBit(blk) =>
            /\ ReadAll(packed) = [q_scales |-> blk.q_scales, q_mins |-> blk.q_mins]
            /\ \A i \in 0..7 : \A v \in BitProbes :
                LET ps == PackedWithScale(blk, i, v)
                    pm == PackedWithMin(blk, i, v)
                IN  /\ ReadAll(ps) = [q_scales |-> [blk.q_scales EXCEPT ![i + 1] = v],
                                      q_mins |-> blk.q_mins]
                    /\ ReadAll(pm) = [q_scales |-> blk.q_scales,
                                      q_mins |-> [blk.q_mins EXCEPT ![i + 1] = v]]
                    /\ v # blk.q_scales[i + 1] => ps # packed
                    /\ v # blk.q_mins[i + 1] => pm # packed

\* a super-block with 6-bit values that uses the top value, a value with
\* bits on both sides of a byte boundary, and unequal sub-scales
C27_Witness ==
    \E p \in Q4KReturned :
        LET blk == rets[p[1]].blocks[p[2] + 1]
        IN  /\ SixBit(blk)
            /\ \E j \in 1..8 : blk.q_scales[j] = 63
            /\ \E j \in 1..8 : blk.q_mins[j] \in 17..62
            /\ \E j, k \in 1..8 : blk.q_scales[j] # blk.q_scales[k]
            /\ \E j \in 2..8 : blk.q_scales[j] >= 16


-----------------------------------------------------------------------------
\* The regression harness (asr_regression.py): generate_refs walks the WAV
\* list, transcribe runs the engine once or twice per WAV, run_once starts
\* the engine as a child process and waits for it.

\* WAVs under the samples root
NWavs == 2

\* timeout_s, in clock ticks
TimeoutTicks == 2

\* how long the clock follows a child that run_once is reading from
MaxClock == 4

\* exit statuses a child ends with by itself
ExitCodes == {0, 1}

\* returncode of a child ended by proc.kill()
SIGKILL_RC == 0 - 9

SEGMENTED_SECONDS == "20"

Wavs == 1 .. NWavs

LastRun == runs[Len(runs)]

\* stdout_text: the bytes the child wrote, decoded and stripped
StdoutText(p) == IF p.wrote THEN "text" ELSE ""

HarnessInit ==
    /\ refresh \in BOOLEAN
    /\ show_output \in BOOLEAN
    /\ explicit_seg \in BOOLEAN
    /\ refs \in [Wavs -> {"none", "old"}]
    /\ ref_writes = << >>
    /\ transcribed = << >>
    /\ gpc = "loop"
    /\ gidx = 1
    /\ generated = 0
    /\ tpc = "idle"
    /\ runs = << >>
    /\ rpc = "idle"
    /\ proc = NoProc
    /\ elapsed = 0
    /\ waited = 0
    /\ EncIdle
    /\ WriterIdle
    /\ ConvIdle

\* run_once is entered: the child starts with stdout piped to the harness
RunOnceCall(prev, seg) ==
    /\ rpc' = IF show_output THEN "read" ELSE "communicate"
    /\ proc' = [state |-> "running", stdout_open |-> TRUE, wrote |-> FALSE,
                returncode |-> 0]
    /\ elapsed' = 0
    /\ waited' = 0
    /\ runs' = Append(prev, [seg |-> seg, state |-> "running", rc |-> 0,
                             out |-> ""])

\* run_once returns (returncode, stdout, stderr) to transcribe
RunOnceReturn(p) ==
    /\ rpc' = "idle"
    /\ proc' = p
    /\ runs' = [runs EXCEPT ![Len(runs)] =
                   [@ EXCEPT !.state = "returned", !.rc = p.returncode,
                             !.out = StdoutText(p)]]

\* ---- the child ----

Blocked == rpc \in {"communicate", "read", "wait"}

ChildWrites ==
    /\ Blocked
    /\ proc.state = "running"
    /\ proc.stdout_open
    /\ ~proc.wrote
    /\ proc' = [proc EXCEPT !.wrote = TRUE]
    /\ UNCHANGED << refresh, show_output, explicit_seg, refs, ref_writes,
                    transcribed, gpc, gidx, generated, tpc, runs, rpc,
                    elapsed, waited >>
    /\ UNCHANGED << encVars, wrVars, cvVars >>

\* the child closes its stdout and keeps running
ChildClosesStdout ==
    /\ Blocked
    /\ proc.state = "running"
    /\ proc.stdout_open
    /\ proc' = [proc EXCEPT !.stdout_open = FALSE]
    /\ UNCHANGED << refresh, show_output, explicit_seg, refs, ref_writes,
                    transcribed, gpc, gidx, generated, tpc, runs, rpc,
                    elapsed, waited >>
    /\ UNCHANGED << encVars, wrVars, cvVars >>

ChildExits ==
    /\ Blocked
    /\ proc.state = "running"
    /\ \E rc \in ExitCodes :
           proc' = [proc EXCEPT !.state = "exited", !.stdout_open = FALSE,
                                !.returncode = rc]
    /\ UNCHANGED << refresh, show_output, explicit_seg, refs, ref_writes,
                    transcribed, gpc, gidx, generated, tpc, runs, rpc,
                    elapsed, waited >>
    /\ UNCHANGED << encVars, wrVars, cvVars >>

\* Time passes while run_once is blocked.  subprocess.run(timeout=timeout_s)
\* and proc.wait(timeout=timeout_s) stop blocking at their deadline;
\* proc.stdout.read(1) has none.
Tick ==
    /\ \/ /\ rpc = "communicate"
          /\ proc.state = "running"
          /\ elapsed < TimeoutTicks
          /\ waited' = waited
       \/ /\ rpc = "read"
          /\ proc.stdout_open
          /\ elapsed < MaxClock
          /\ waited' = waited
       \/ /\ rpc = "wait"
          /\ proc.state = "running"
          /\ waited < TimeoutTicks
          /\ waited' = waited + 1
    /\ elapsed' = elapsed + 1
    /\ UNCHANGED << refresh, show_output, explicit_seg, refs, ref_writes,
                    transcribed, gpc, gidx, generated, tpc, runs, rpc, proc >>
    /\ UNCHANGED << encVars, wrVars, cvVars >>

\* ---- run_once, show_output false ----

QuietReturn ==
    /\ rpc = "communicate"
    /\ proc.state = "exited"
    /\ RunOnceReturn(proc)
    /\ UNCHANGED << refresh, show_output, explicit_seg, refs, ref_writes,
                    transcribed, gpc, gidx, generated, tpc, elapsed, waited >>
    /\ UNCHANGED << encVars, wrVars, cvVars >>

\* subprocess.run kills the child and re-raises TimeoutExpired; neither
\* run_once, transcribe nor generate_refs catches it
QuietTimeout ==
    /\ rpc = "communicate"
    /\ proc.state = "running"
    /\ elapsed = TimeoutTicks
    /\ proc' = [proc EXCEPT !.state = "killed", !.stdout_open = FALSE,
                            !.returncode = SIGKILL_RC]
    /\ runs' = [runs EXCEPT ![Len(runs)] =
                   [@ EXCEPT !.state = "TimeoutExpired"]]
    /\ rpc' = "idle"
    /\ tpc' = "raised"
    /\ gpc' = "raised"
    /\ UNCHANGED << refresh, show_output, explicit_seg, refs, ref_writes,
                    transcribed, gidx, generated, elapsed, waited >>
    /\ UNCHANGED << encVars, wrVars, cvVars >>

\* ---- run_once, show_output true ----

\* read(1) returns b"": the loop breaks and proc.wait(timeout=timeout_s)
\* starts its own countdown
StreamEOF ==
    /\ rpc = "read"
    /\ ~proc.stdout_open
    /\ rpc' = "wait"
    /\ waited' = 0
    /\ UNCHANGED << refresh, show_output, explicit_seg, refs, ref_writes,
                    transcribed, gpc, gidx, generated, tpc, runs, proc,
                    elapsed >>
    /\ UNCHANGED << encVars, wrVars, cvVars >>

StreamWaitReturns ==
    /\ rpc = "wait"
    /\ proc.state = "exited"
    /\ RunOnceReturn(proc)
    /\ UNCHANGED << refresh, show_output, explicit_seg, refs, ref_writes,
                    transcribed, gpc, gidx, generated, tpc, elapsed, waited >>
    /\ UNCHANGED << encVars, wrVars, cvVars >>

\* except subprocess.TimeoutExpired: proc.kill(); proc.wait()
StreamWaitTimeout ==
    /\ rpc = "wait"
    /\ proc.state = "running"
    /\ waited = TimeoutTicks
    /\ RunOnceReturn([proc EXCEPT !.state = "killed",
                                  !.returncode = SIGKILL_RC])
    /\ UNCHANGED << refresh, show_output, explicit_seg, refs, ref_writes,
                    transcribed, gpc, gidx, generated, tpc, elapsed, waited >>
    /\ UNCHANGED << encVars, wrVars, cvVars >>

\* ---- transcribe ----

\* what transcribe does with the result of the full-context run
FullOutcomeEager(rc, out, explicit) ==
    IF rc # 0 THEN "raise"
    ELSE IF out # "" THEN "return"
    ELSE "fallback"

FullOutcome(rc, out, explicit) ==
    IF rc # 0 THEN "raise"
    ELSE IF out # "" THEN "return"
    ELSE IF explicit THEN "return"
    ELSE "fallback"

TranscribeAfterFull ==
    /\ tpc = "full"
    /\ rpc = "idle"
    /\ LastRun.state = "returned"
    /\ LET o == FullOutcome(LastRun.rc, LastRun.out, explicit_seg)
       IN  \/ /\ o = "raise"
              /\ tpc' = "raised"
              /\ gpc' = "raised"
              /\ UNCHANGED << runs, rpc, proc, elapsed, waited >>
           \/ /\ o = "return"
              /\ tpc' = "returned"
              /\ UNCHANGED << gpc, runs, rpc, proc, elapsed, waited >>
           \/ /\ o = "fallback"
              /\ tpc' = "fallback"
              /\ RunOnceCall(runs, SEGMENTED_SECONDS)
              /\ UNCHANGED gpc
    /\ UNCHANGED << refresh, show_output, explicit_seg, refs, ref_writes,
                    transcribed, gidx, generated >>
    /\ UNCHANGED << encVars, wrVars, cvVars >>

TranscribeAfterFallback ==
    /\ tpc = "fallback"
    /\ rpc = "idle"
    /\ LastRun.state = "returned"
    /\ IF LastRun.rc # 0
       THEN tpc' = "raised" /\ gpc' = "raised"
       ELSE tpc' = "returned" /\ gpc' = gpc
    /\ UNCHANGED << refresh, show_output, explicit_seg, refs, ref_writes,
                    transcribed, gidx, generated, runs, rpc, proc, elapsed,
                    waited >>
    /\ UNCHANGED << encVars, wrVars, cvVars >>

\* ---- generate_refs ----

\* if ref.exists() and not refresh
SkipsNever(exists, rf) == FALSE

Skips(exists, rf) == exists /\ ~rf

GenSkip ==
    /\ gpc = "loop"
    /\ gidx \in Wavs
    /\ Skips(refs[gidx] # "none", refresh)
    /\ gidx' = gidx + 1
    /\ UNCHANGED << refresh, show_output, explicit_seg, refs, ref_writes,
                    transcribed, gpc, generated, tpc, runs, rpc, proc,
                    elapsed, waited >>
    /\ UNCHANGED << encVars, wrVars, cvVars >>

\* transcribe is called and starts the full-context run (-S 0)
GenTranscribe ==
    /\ gpc = "loop"
    /\ gidx \in Wavs
    /\ ~Skips(refs[gidx] # "none", refresh)
    /\ gpc' = "transcribe"
    /\ tpc' = "full"
    /\ transcribed' = Append(transcribed, gidx)
    /\ RunOnceCall(<< >>, "0")
    /\ UNCHANGED << refresh, show_output, explicit_seg, refs, ref_writes,
                    gidx, generated >>
    /\ UNCHANGED << encVars, wrVars, cvVars >>

\* ref.write_text(txt + "\n"); generated += 1
GenWrite ==
    /\ gpc = "transcribe"
    /\ tpc = "returned"
    /\ refs' = [refs EXCEPT ![gidx] = IF @ = "none" THEN "new" ELSE "rewritten"]
    /\ ref_writes' = Append(ref_writes, gidx)
    /\ generated' = generated + 1
    /\ gidx' = gidx + 1
    /\ gpc' = "loop"
    /\ tpc' = "idle"
    /\ UNCHANGED << refresh, show_output, explicit_seg, transcribed, runs,
                    rpc, proc, elapsed, waited >>
    /\ UNCHANGED << encVars, wrVars, cvVars >>

\* return generated
GenReturn ==
    /\ gpc = "loop"
    /\ gidx = NWavs + 1
    /\ gpc' = "returned"
    /\ UNCHANGED << refresh, show_output, explicit_seg, refs, ref_writes,
                    transcribed, gidx, generated, tpc, runs, rpc, proc,
                    elapsed, waited >>
    /\ UNCHANGED << encVars, wrVars, cvVars >>

HarnessNext ==
    \/ ChildWrites
    \/ ChildClosesStdout
    \/ ChildExits
    \/ Tick
    \/ QuietReturn
    \/ QuietTimeout
    \/ StreamEOF
    \/ StreamWaitReturns
    \/ StreamWaitTimeout
    \/ TranscribeAfterFull
    \/ TranscribeAfterFallback
    \/ GenSkip
    \/ GenTranscribe
    \/ GenWrite
    \/ GenReturn

SpecHarness == HarnessInit /\ [][HarnessNext]_vars

-----------------------------------------------------------------------------
\* Claims about the regression harness

\* C28: every child started through run_once is bounded by the per-sample
\* timeout, in the quiet and in the streaming mode: run_once is never still
\* blocked on a running child once more than timeout_s has elapsed since the
\* child was started (a child still running at timeout_s is terminated and
\* run_once returns).
C28_BoundedByTimeout ==
    (Blocked /\ proc.state = "running") => elapsed <= TimeoutTicks

\* the quiet mode alone keeps the bound
QuietBoundedByTimeout ==
    (rpc = "communicate" /\ proc.state = "running") => elapsed <= TimeoutTicks

\* the first run of the current transcribe call returned exit status 0 and
\* empty text, and extra_args name no segmentation option
FallbackDue ==
    /\ Len(runs) >= 1
    /\ runs[1].state = "returned"
    /\ runs[1].rc = 0
    /\ runs[1].out = ""
    /\ ~explicit_seg

TranscribeEnded == tpc \in {"returned", "raised"}

\* C29: transcribe runs the full-context decode (-S 0) first; the segmented
\* fallback (-S 20) runs if and only if the first run exited 0 with empty
\* output and extra_args hold neither -S nor --segment-overlap; a non-zero
\* exit of either run raises instead of returning text; at most two engine
\* runs happen per call.
C29_TranscribeProtocol ==
    /\ Len(runs) <= 2
    /\ Len(runs) >= 1 => runs[1].seg = "0"
    /\ Len(runs) = 2 => (runs[2].seg = "20" /\ FallbackDue)
    /\ (TranscribeEnded /\ FallbackDue) => Len(runs) = 2
    /\ tpc = "returned" =>
           \A i \in 1..Len(runs) :
               runs[i].state = "returned" /\ runs[i].rc = 0
    /\ (TranscribeEnded
            /\ \E i \in 1..Len(runs) :
                   runs[i].state = "returned" /\ runs[i].rc # 0)
           => tpc = "raised"

\* a call whose full-context run came back empty and whose fallback run
\* gave the text
C29_Witness ==
    /\ tpc = "returned"
    /\ Len(runs) = 2
    /\ runs[1].out = ""
    /\ runs[2].out = "text"

\* with -S among extra_args an empty full-context result is returned as is
C29_ExplicitWitness ==
    /\ tpc = "returned"
    /\ explicit_seg
    /\ Len(runs) = 1
    /\ runs[1].out = ""

WrittenWavs == {ref_writes[i] : i \in 1..Len(ref_writes)}

TranscribedWavs == {transcribed[i] : i \in 1..Len(transcribed)}

\* C30: with refresh false generate_refs never rewrites the reference of, or
\* runs a transcription for, a WAV whose .txt already exists, and when it
\* returns every WAV that lacked a reference has one; with refresh true it
\* has rewritten the reference of every WAV when it returns; the returned
\* count is the number of reference files written.
C30_GenerateRefs ==
    /\ ~refresh =>
           \A w \in Wavs :
               /\ refs[w] # "rewritten"
               /\ refs[w] = "old" => w \notin WrittenWavs \cup TranscribedWavs
    /\ generated = Len(ref_writes)
    /\ gpc = "returned" =>
           /\ ~refresh => \A w \in Wavs : refs[w] \in {"old", "new"}
           /\ ~refresh => WrittenWavs = {w \in Wavs : refs[w] = "new"}
           /\ refresh => WrittenWavs = Wavs
           /\ refresh => \A w \in Wavs : refs[w] \in {"new", "rewritten"}
           /\ generated = Cardinality(WrittenWavs)

\* --generate-missing over one WAV with a reference and one without
C30_Witness ==
    /\ gpc = "returned"
    /\ ~refresh
    /\ \E w \in Wavs : refs[w] = "old"
    /\ \E w \in Wavs : refs[w] = "new"
    /\ generated = 1

\* --refresh-refs over WAVs that had references
C30_RefreshWitness ==
    /\ gpc = "returned"
    /\ refresh
    /\ \E w \in Wavs : refs[w] = "rewritten"
    /\ generated = NWavs

=============================================================================
